---------------------------- MODULE Spec2Model ----------------------------
(***************************************************************************)
(* A model of the projection engine of the SG FIRE calculator:             *)
(*   src/src/lib/calculator.ts  calculateAccumulation, calculateDrawdown,  *)
(*                              calculateFIRE, runMonteCarloSimulation     *)
(*   src/src/lib/cpf.ts         calculateCPFContribution,                  *)
(*                              calculateCPFInterest, projectCPF           *)
(*                                                                         *)
(* Numbers.  The code computes on IEEE doubles.  The model computes on     *)
(* decimal fixed point: an amount of money is an integer number of cents,  *)
(* a rate, a ratio or a compounding factor is an integer number of         *)
(* millionths.  A product or a quotient is rounded to the nearest unit     *)
(* (Mul, Div, Ratio below), as a double operation is rounded to the        *)
(* nearest double; sums, differences, comparisons, min and max are exact.  *)
(* Math.round and Math.floor are modelled by what they do.                 *)
(*                                                                         *)
(* Control.  Every function with a loop is a sequence of steps, one per    *)
(* loop iteration; pc is the function whose loop is running and entry is   *)
(* the function the caller invoked.  Each function invocation owns one     *)
(* frame variable holding its parameters, its locals and its result.       *)
(***************************************************************************)
EXTENDS Integers, Sequences, FiniteSets, TLC

VARIABLES
  pc,      \* "idle", the function whose body is executing, or "returned"
  entry,   \* the function the caller invoked ("" while idle)
  fire,    \* frame of calculateFIRE
  acc,     \* frame of calculateAccumulation
  dd,      \* frame of calculateDrawdown
  mc,      \* frame of runMonteCarloSimulation
  cpf,     \* frame of projectCPF
  call,    \* frame of a direct call of calculateCPFContribution / calculateCPFInterest
  hb,      \* frame of runHistoricalBacktest
  app,     \* state and memos of the App component
  hook     \* frame of usePersistedState

vars == <<pc, entry, fire, acc, dd, mc, cpf, call, hb, app, hook>>

---------------------------------------------------------------------------
(* Fixed-point numbers                                                     *)

\* units of money per dollar (cents)
Dollar == 10 * 10
\* units of a rate, ratio or factor per 1.0 (millionths)
RateUnit == 1000 * 1000

Dollars(n) == n * Dollar
Percent(n) == n * (RateUnit \div 100)

Abs(x) == IF x < 0 THEN -x ELSE x
Min(a, b) == IF a <= b THEN a ELSE b
Max(a, b) == IF a >= b THEN a ELSE b

\* <<q, r>> with a * b = q * c + r and 0 <= r < c, for a, b >= 0 and c > 0,
\* without forming the product a * b (which need not fit the integers of
\* the checker).
RECURSIVE MulDivQR(_, _, _)
MulDivQR(a, b, c) ==
  IF b = 0 THEN <<0, 0>>
  ELSE LET h  == MulDivQR(a, b \div 2, c)
           dq == IF h[2] >= c - h[2] THEN 2 * h[1] + 1 ELSE 2 * h[1]
           dr == IF h[2] >= c - h[2] THEN h[2] - (c - h[2]) ELSE h[2] + h[2]
           ar == IF b % 2 = 1 THEN a % c ELSE 0
           aq == IF b % 2 = 1 THEN a \div c ELSE 0
       IN  IF dr >= c - ar THEN <<dq + aq + 1, dr - (c - ar)>>
                           ELSE <<dq + aq, dr + ar>>

\* a * b / c rounded to the nearest integer (half away from zero), c # 0.
MulDiv(a, b, c) ==
  LET qr == MulDivQR(Abs(a), Abs(b), Abs(c))
      m  == IF qr[2] >= Abs(c) - qr[2] THEN qr[1] + 1 ELSE qr[1]
  IN  IF (a < 0) # ((b < 0) # (c < 0)) THEN -m ELSE m

\* x * r for a rate, ratio or factor r (in millionths)
Mul(x, r) == MulDiv(x, r, RateUnit)
\* x / r for a rate or factor r (in millionths)
Div(x, r) == MulDiv(x, RateUnit, r)
\* x / y as a ratio (in millionths) of two quantities of the same unit
Ratio(x, y) == MulDiv(x, RateUnit, y)

\* Math.round of an amount, as whole dollars (halves round up)
MathRound(x) == (x + (Dollar \div 2)) \div Dollar

Last(s) == s[Len(s)]

---------------------------------------------------------------------------
(* Bounds and input domains                                                *)

MaxYearsToRetirement == 2
MaxRetirementYears == 3

CurrentSavingsDomain == {Dollars(0), Dollars(1000), Dollars(500000)}
MonthlyContributionDomain == {Dollars(0), Dollars(5000)}
ExpectedReturnDomain == {Percent(0), Percent(1), Percent(7)}
InflationRateDomain == {Percent(0), Percent(3)}
WithdrawalRateDomain == {Percent(4), Percent(60), Percent(150)}
MonthlyExpensesDomain == {Dollars(0), Dollars(2000)}
CurrentAgeDomain == {35}

PortfolioInputsDomain ==
  [currentSavings : CurrentSavingsDomain,
   monthlyContribution : MonthlyContributionDomain,
   yearsToRetirement : 0..MaxYearsToRetirement,
   expectedReturn : ExpectedReturnDomain,
   inflationRate : InflationRateDomain,
   withdrawalRate : WithdrawalRateDomain]

\* arguments of a direct call of calculateDrawdown
StartingPortfolioDomain == {Dollars(-1000), Dollars(0), Dollars(1000), Dollars(100000)}
AnnualWithdrawalDomain == {Dollars(0), Dollars(40), Dollars(600), Dollars(4000)}
DrawdownReturnDomain == {-Percent(1), Percent(0), Percent(6)}

---------------------------------------------------------------------------
(* Frames at rest                                                          *)

NoInputs ==
  [currentSavings |-> 0, monthlyContribution |-> 0, yearsToRetirement |-> 0,
   expectedReturn |-> 0, inflationRate |-> 0, withdrawalRate |-> 0]

NoFIREResult ==
  [portfolioAtRetirement |-> 0, annualWithdrawal |-> 0, monthlyWithdrawal |-> 0,
   yearsOfRunway |-> 0, projections |-> <<>>, successProbability |-> 0,
   fireNumber |-> 0]

NoFire ==
  [inputs |-> NoInputs, currentAge |-> 0, monthlyExpenses |-> 0,
   retirementYears |-> 0, portfolioAtRetirement |-> 0, fireNumber |-> 0,
   annualWithdrawal |-> 0, monthlyWithdrawal |-> 0, result |-> NoFIREResult]

NoAcc ==
  [inputs |-> NoInputs, currentAge |-> 0, year |-> 0, portfolioValue |-> 0,
   cumulativeInflation |-> RateUnit, results |-> <<>>]

NoDd ==
  [startingPortfolio |-> 0, annualWithdrawal |-> 0, expectedReturn |-> 0,
   inflationRate |-> 0, years |-> 0, startAge |-> 0, year |-> 0,
   portfolioValue |-> 0, currentWithdrawal |-> 0,
   cumulativeInflation |-> RateUnit, results |-> <<>>, broke |-> FALSE]


---------------------------------------------------------------------------
(* calculator.ts: calculateAccumulation                                    *)

\* the frame on entry: lines 46-48 and the loop initialiser of line 50
AccumulationEntry(inputs, currentAge) ==
  [inputs |-> inputs, currentAge |-> currentAge, year |-> 0,
   portfolioValue |-> inputs.currentSavings,
   cumulativeInflation |-> RateUnit, results |-> <<>>]

\* line 50: the loop condition
AccumulationLoops(f) == f.year <= f.inputs.yearsToRetirement

\* a variant of line 52 without the year-0 case
AccumulationContributionEveryYear(inputs, year) ==
  inputs.monthlyContribution * 12

\* line 52
AccumulationContribution(inputs, year) ==
  IF year = 0 THEN 0 ELSE inputs.monthlyContribution * 12

\* a variant of lines 51-67 that compounds the inflation after the push
AccumulationIterationDeflatingLate(f) ==
  LET year == f.year
      age == f.currentAge + year
      contribution == AccumulationContribution(f.inputs, year)
      returns == Mul(f.portfolioValue, f.inputs.expectedReturn)
  IN  [f EXCEPT
         !.cumulativeInflation = Mul(@, RateUnit + f.inputs.inflationRate),
         !.results = Append(@,
            [year |-> year, age |-> age,
             portfolioValue |-> f.portfolioValue,
             contribution |-> contribution,
             returns |-> returns,
             withdrawal |-> 0,
             inflationAdjustedValue |-> Div(f.portfolioValue, f.cumulativeInflation)]),
         !.portfolioValue = f.portfolioValue + contribution + returns,
         !.year = year + 1]

\* lines 51-67: one iteration of the loop, and the year++ of line 50
AccumulationIteration(f) ==
  LET year == f.year
      age == f.currentAge + year
      contribution == AccumulationContribution(f.inputs, year)
      returns == Mul(f.portfolioValue, f.inputs.expectedReturn)
      cumulativeInflation ==
        Mul(f.cumulativeInflation, RateUnit + f.inputs.inflationRate)
  IN  [f EXCEPT
         !.cumulativeInflation = cumulativeInflation,
         !.results = Append(@,
            [year |-> year, age |-> age,
             portfolioValue |-> f.portfolioValue,
             contribution |-> contribution,
             returns |-> returns,
             withdrawal |-> 0,
             inflationAdjustedValue |-> Div(f.portfolioValue, cumulativeInflation)]),
         !.portfolioValue = f.portfolioValue + contribution + returns,
         !.year = year + 1]

---------------------------------------------------------------------------
(* calculator.ts: calculateDrawdown                                        *)

\* the frame on entry: lines 82-85 and the loop initialiser of line 87
DrawdownEntry(startingPortfolio, annualWithdrawal, expectedReturn, inflationRate, years, startAge) ==
  [startingPortfolio |-> startingPortfolio, annualWithdrawal |-> annualWithdrawal,
   expectedReturn |-> expectedReturn, inflationRate |-> inflationRate,
   years |-> years, startAge |-> startAge, year |-> 0,
   portfolioValue |-> startingPortfolio, currentWithdrawal |-> annualWithdrawal,
   cumulativeInflation |-> RateUnit, results |-> <<>>, broke |-> FALSE]

\* line 87: the loop runs while year <= years and no break was taken
DrawdownLoops(f) == ~f.broke /\ f.year <= f.years

\* a variant of line 107 with < for <=
DepletedBelowZero(portfolioValue) == portfolioValue < 0

\* line 107: the portfolio is depleted after the year's update
Depleted(portfolioValue) == portfolioValue <= 0

\* lines 110-118: the record of a year after depletion
DepletedRecord(remaining, startAge) ==
  [year |-> remaining, age |-> startAge + remaining, portfolioValue |-> 0,
   contribution |-> 0, returns |-> 0, withdrawal |-> 0,
   inflationAdjustedValue |-> 0]

\* a variant of lines 109-119 whose loop stops one year early
DepletedRecordsShort(year, years, startAge) ==
  [i \in 1..(IF years > year + 1 THEN years - year - 1 ELSE 0) |->
     DepletedRecord(year + i, startAge)]

\* lines 109-119: the records of the years remaining after depletion
DepletedRecords(year, years, startAge) ==
  [i \in 1..(IF years > year THEN years - year ELSE 0) |->
     DepletedRecord(year + i, startAge)]

\* lines 88-121: one iteration of the loop, and the year++ of line 87
DrawdownIteration(f) ==
  LET year == f.year
      age == f.startAge + year
      returns == Mul(f.portfolioValue, f.expectedReturn)
      withdrawal == IF year = 0 THEN 0 ELSE f.currentWithdrawal
      cumulativeInflation == Mul(f.cumulativeInflation, RateUnit + f.inflationRate)
      pushed == Append(f.results,
            [year |-> year, age |-> age,
             portfolioValue |-> Max(0, f.portfolioValue),
             contribution |-> 0,
             returns |-> IF f.portfolioValue > 0 THEN returns ELSE 0,
             withdrawal |-> withdrawal,
             inflationAdjustedValue |->
               Div(Max(0, f.portfolioValue), cumulativeInflation)])
      portfolioValue == f.portfolioValue + returns - withdrawal
      currentWithdrawal == Mul(f.currentWithdrawal, RateUnit + f.inflationRate)
  IN  IF Depleted(portfolioValue)
      THEN [f EXCEPT
              !.cumulativeInflation = cumulativeInflation,
              !.results = pushed \o DepletedRecords(year, f.years, f.startAge),
              !.portfolioValue = portfolioValue,
              !.currentWithdrawal = currentWithdrawal,
              !.broke = TRUE]
      ELSE [f EXCEPT
              !.cumulativeInflation = cumulativeInflation,
              !.results = pushed,
              !.portfolioValue = portfolioValue,
              !.currentWithdrawal = currentWithdrawal,
              !.year = year + 1]

---------------------------------------------------------------------------
(* calculator.ts: calculateFIRE                                            *)

\* line 153: findIndex(r => r.portfolioValue <= 0), -1 when there is none
RECURSIVE FindDepletion(_, _)
FindDepletion(results, i) ==
  IF i > Len(results) THEN -1
  ELSE IF results[i].portfolioValue <= 0 THEN i - 1
  ELSE FindDepletion(results, i + 1)

\* a variant of lines 157-158 without the factor 0.8
SuccessProbabilityUnscaled(portfolioAtRetirement, fireNumber) ==
  IF portfolioAtRetirement >= fireNumber THEN Percent(95)
  ELSE Ratio(portfolioAtRetirement, fireNumber)

\* lines 157-158
SuccessProbability(portfolioAtRetirement, fireNumber) ==
  IF portfolioAtRetirement >= fireNumber THEN Percent(95)
  ELSE Mul(Ratio(portfolioAtRetirement, fireNumber), Percent(80))

\* lines 152-168: the value returned
FIREResult(f, drawdownResults, accumulationResults) ==
  LET depletionYear == FindDepletion(drawdownResults, 1)
      yearsOfRunway == IF depletionYear = -1 THEN f.retirementYears ELSE depletionYear
      successProbability == SuccessProbability(f.portfolioAtRetirement, f.fireNumber)
  IN  [portfolioAtRetirement |-> f.portfolioAtRetirement,
       annualWithdrawal |-> f.annualWithdrawal,
       monthlyWithdrawal |-> f.monthlyWithdrawal,
       yearsOfRunway |-> yearsOfRunway,
       projections |-> accumulationResults \o Tail(drawdownResults),
       successProbability |-> Min(successProbability, Percent(99)),
       fireNumber |-> f.fireNumber]

\* calculateFIRE is called: line 134 enters calculateAccumulation
CallCalculateFIRE ==
  /\ pc = "idle"
  /\ \E inputs \in PortfolioInputsDomain, currentAge \in CurrentAgeDomain,
        monthlyExpenses \in MonthlyExpensesDomain,
        retirementYears \in 0..MaxRetirementYears :
       /\ fire' = [NoFire EXCEPT !.inputs = inputs, !.currentAge = currentAge,
                                 !.monthlyExpenses = monthlyExpenses,
                                 !.retirementYears = retirementYears]
       /\ acc' = AccumulationEntry(inputs, currentAge)
  /\ pc' = "calculateAccumulation"
  /\ entry' = "calculateFIRE"
  /\ UNCHANGED <<dd, mc, cpf, call, hb, app, hook>>

\* one iteration of the loop of calculateAccumulation
AccumulationStep ==
  /\ pc = "calculateAccumulation"
  /\ AccumulationLoops(acc)
  /\ acc' = AccumulationIteration(acc)
  /\ UNCHANGED <<pc, entry, fire, dd, mc, cpf, call, hb, app, hook>>

\* calculateAccumulation returns into calculateFIRE: lines 135-150, which
\* end by entering calculateDrawdown
FIRECallDrawdown ==
  /\ pc = "calculateAccumulation"
  /\ ~AccumulationLoops(acc)
  /\ LET accumulationResults == acc.results
         portfolioAtRetirement == Last(accumulationResults).portfolioValue
         annualExpenses == fire.monthlyExpenses * 12
         fireNumber == Div(annualExpenses, fire.inputs.withdrawalRate)
         annualWithdrawal == Mul(portfolioAtRetirement, fire.inputs.withdrawalRate)
         monthlyWithdrawal == MulDiv(annualWithdrawal, 1, 12)
         retirementAge == fire.currentAge + fire.inputs.yearsToRetirement
     IN  /\ fire' = [fire EXCEPT !.portfolioAtRetirement = portfolioAtRetirement,
                                 !.fireNumber = fireNumber,
                                 !.annualWithdrawal = annualWithdrawal,
                                 !.monthlyWithdrawal = monthlyWithdrawal]
         /\ dd' = DrawdownEntry(portfolioAtRetirement, annualWithdrawal,
                                fire.inputs.expectedReturn - Percent(1),
                                fire.inputs.inflationRate,
                                fire.retirementYears, retirementAge)
  /\ pc' = "calculateDrawdown"
  /\ UNCHANGED <<entry, acc, mc, cpf, call, hb, app, hook>>

\* calculateDrawdown is called directly
CallCalculateDrawdown ==
  /\ pc = "idle"
  /\ \E startingPortfolio \in StartingPortfolioDomain,
        annualWithdrawal \in AnnualWithdrawalDomain,
        expectedReturn \in DrawdownReturnDomain,
        inflationRate \in InflationRateDomain,
        years \in 0..MaxRetirementYears :
       dd' = DrawdownEntry(startingPortfolio, annualWithdrawal, expectedReturn,
                           inflationRate, years, 45)
  /\ pc' = "calculateDrawdown"
  /\ entry' = "calculateDrawdown"
  /\ UNCHANGED <<fire, acc, mc, cpf, call, hb, app, hook>>

\* one iteration of the loop of calculateDrawdown
DrawdownStep ==
  /\ pc = "calculateDrawdown"
  /\ DrawdownLoops(dd)
  /\ dd' = DrawdownIteration(dd)
  /\ UNCHANGED <<pc, entry, fire, acc, mc, cpf, call, hb, app, hook>>

\* calculateDrawdown returns to its direct caller (line 124)
DrawdownReturn ==
  /\ pc = "calculateDrawdown"
  /\ entry = "calculateDrawdown"
  /\ ~DrawdownLoops(dd)
  /\ pc' = "returned"
  /\ UNCHANGED <<entry, fire, acc, dd, mc, cpf, call, hb, app, hook>>

\* calculateDrawdown returns into calculateFIRE, which returns: lines 152-168
FIREReturn ==
  /\ pc = "calculateDrawdown"
  /\ entry = "calculateFIRE"
  /\ ~DrawdownLoops(dd)
  /\ fire' = [fire EXCEPT !.result = FIREResult(fire, dd.results, acc.results)]
  /\ pc' = "returned"
  /\ UNCHANGED <<entry, acc, dd, mc, cpf, call, hb, app, hook>>

---------------------------------------------------------------------------
(* calculator.ts: runMonteCarloSimulation                                  *)

MaxSimulations == 3

\* the values Math.random() returns, of [0, 1)
RandomDomain == {0, RateUnit \div 2, RateUnit - 1}

MCInputsDomain ==
  [currentSavings : {Dollars(1000)},
   monthlyContribution : {Dollars(10)},
   yearsToRetirement : {0, 1},
   expectedReturn : {Percent(7)},
   inflationRate : {Percent(3)},
   withdrawalRate : {Percent(4), Percent(60), Percent(150)}]
MCRetirementYearsDomain == {1, 2}
\* the pairs of yearsToRetirement and retirementYears of a call
MCHorizonDomain == {<<0, 1>>, <<1, 1>>, <<0, 2>>}

\* line 180
volatility == 150000

\* lines 189 and 197: mean + (Math.random() - 0.5) * 2 * volatility
RandomReturn(mean, random) ==
  mean + Mul((random - (RateUnit \div 2)) * 2, volatility)

\* the locals of a trial on entry to the loop body: lines 184-185; draws
\* are the values Math.random() has returned to the trial
TrialEntry(f) ==
  [f EXCEPT !.phase = "accumulation", !.year = 0,
            !.portfolio = f.inputs.currentSavings, !.withdrawal = 0,
            !.yearlyValues = <<>>, !.draws = <<>>]

\* the frame on entry: lines 179-181, and lines 183-185 for the first trial
MonteCarloEntry(inputs, currentAge, monthlyExpenses, simulations, retirementYears) ==
  TrialEntry(
    [inputs |-> inputs, currentAge |-> currentAge,
     monthlyExpenses |-> monthlyExpenses, simulations |-> simulations,
     retirementYears |-> retirementYears,
     allResults |-> <<>>, successCount |-> 0, sim |-> 0,
     phase |-> "accumulation", year |-> 0, portfolio |-> 0, withdrawal |-> 0,
     yearlyValues |-> <<>>, draws |-> <<>>,
     result |-> [percentile5 |-> <<>>, percentile25 |-> <<>>,
                 percentile50 |-> <<>>, percentile75 |-> <<>>,
                 percentile95 |-> <<>>, successRate |-> 0,
                 medianEndValue |-> 0, years |-> <<>>]])

NoMcFrame == MonteCarloEntry(NoInputs, 0, 0, 0, 0)

\* lines 189-191: one year of the accumulation phase of a trial
TrialAccumulationYear(f, random) ==
  LET randomReturn == RandomReturn(f.inputs.expectedReturn, random)
      portfolio == Mul(f.portfolio, RateUnit + randomReturn)
                     + f.inputs.monthlyContribution * 12
  IN  [f EXCEPT !.portfolio = portfolio,
                !.yearlyValues = Append(@, portfolio),
                !.draws = Append(@, random),
                !.year = f.year + 1]

\* line 195, and the loop initialiser of line 196
TrialRetirementEntry(f) ==
  [f EXCEPT !.phase = "retirement", !.year = 0,
            !.withdrawal = Mul(f.portfolio, f.inputs.withdrawalRate)]

\* a variant of lines 197-200 that keeps the running portfolio at 0 or above
TrialRetirementYearClamped(f, random) ==
  LET randomReturn == RandomReturn(f.inputs.expectedReturn - Percent(1), random)
      portfolio == Max(0, Mul(f.portfolio, RateUnit + randomReturn) - f.withdrawal)
  IN  [f EXCEPT !.portfolio = portfolio,
                !.withdrawal = Mul(f.withdrawal, RateUnit + f.inputs.inflationRate),
                !.yearlyValues = Append(@, portfolio),
                !.draws = Append(@, random),
                !.year = f.year + 1]

\* lines 197-200: one year of the retirement phase of a trial
TrialRetirementYear(f, random) ==
  LET randomReturn == RandomReturn(f.inputs.expectedReturn - Percent(1), random)
      portfolio == Mul(f.portfolio, RateUnit + randomReturn) - f.withdrawal
  IN  [f EXCEPT !.portfolio = portfolio,
                !.withdrawal = Mul(f.withdrawal, RateUnit + f.inputs.inflationRate),
                !.yearlyValues = Append(@, Max(0, portfolio)),
                !.draws = Append(@, random),
                !.year = f.year + 1]

\* lines 203-206, the sim++ of line 183, and then either the entry of the
\* next trial or the end of the loop
TrialEnd(f) ==
  LET g == [f EXCEPT
              !.allResults = Append(@, f.yearlyValues),
              !.successCount =
                 IF Last(f.yearlyValues) > 0 THEN @ + 1 ELSE @,
              !.sim = f.sim + 1]
  IN  IF g.sim < g.simulations THEN TrialEntry(g)
      ELSE [g EXCEPT !.phase = "percentiles"]

\* s with v inserted before the first element that is not below it
RECURSIVE InsertAscending(_, _)
InsertAscending(s, v) ==
  IF s = <<>> THEN <<v>>
  ELSE IF v <= Head(s) THEN <<v>> \o s
  ELSE <<Head(s)>> \o InsertAscending(Tail(s), v)

\* a variant of the sort of line 219 that leaves the values in trial order
Unsorted(s) == s

\* lines 219 and 228: sort((a, b) => a - b), the values in ascending order
RECURSIVE SortAscending(_)
SortAscending(s) ==
  IF s = <<>> THEN <<>>
  ELSE InsertAscending(SortAscending(Tail(s)), Head(s))

\* a variant of the index that rounds to the nearest rank instead of down
PercentileIndexNearest(simulations, p) ==
  Min(simulations - 1, (simulations * p + (RateUnit \div 2)) \div RateUnit)

\* lines 221-225 and 237: Math.floor(simulations * p), p in millionths
PercentileIndex(simulations, p) == (simulations * p) \div RateUnit

\* line 219: the values of all trials at a year offset (from 0), sorted
ValuesAtYear(allResults, year) ==
  SortAscending([i \in 1..Len(allResults) |-> allResults[i][year + 1]])

\* lines 221-225: the array of a percentile, one element per year offset
PercentileArray(f, p) ==
  [y \in 1..(f.inputs.yearsToRetirement + f.retirementYears) |->
     ValuesAtYear(f.allResults, y - 1)[PercentileIndex(f.simulations, p) + 1]]

\* lines 210-239: the value returned
MonteCarloResult(f) ==
  LET totalYears == f.inputs.yearsToRetirement + f.retirementYears
      endValues == SortAscending(
        [i \in 1..Len(f.allResults) |-> Last(f.allResults[i])])
  IN  [percentile5 |-> PercentileArray(f, Percent(5)),
       percentile25 |-> PercentileArray(f, Percent(25)),
       percentile50 |-> PercentileArray(f, Percent(50)),
       percentile75 |-> PercentileArray(f, Percent(75)),
       percentile95 |-> PercentileArray(f, Percent(95)),
       successRate |-> Ratio(f.successCount, f.simulations),
       medianEndValue |-> endValues[PercentileIndex(f.simulations, Percent(50)) + 1],
       years |-> [y \in 1..totalYears |-> f.currentAge + (y - 1) + 1]]

\* runMonteCarloSimulation is called
CallRunMonteCarloSimulation ==
  /\ pc = "idle"
  /\ \E inputs \in MCInputsDomain, currentAge \in CurrentAgeDomain,
        simulations \in 1..MaxSimulations,
        retirementYears \in MCRetirementYearsDomain :
       /\ <<inputs.yearsToRetirement, retirementYears>> \in MCHorizonDomain
       /\ mc' = MonteCarloEntry(inputs, currentAge, Dollars(2000),
                                simulations, retirementYears)
  /\ pc' = "runMonteCarloSimulation"
  /\ entry' = "runMonteCarloSimulation"
  /\ UNCHANGED <<fire, acc, dd, cpf, call, hb, app, hook>>

\* one year of the accumulation phase of the current trial
MonteCarloAccumulationYear ==
  /\ pc = "runMonteCarloSimulation"
  /\ mc.phase = "accumulation"
  /\ mc.year < mc.inputs.yearsToRetirement
  /\ \E random \in RandomDomain : mc' = TrialAccumulationYear(mc, random)
  /\ UNCHANGED <<pc, entry, fire, acc, dd, cpf, call, hb, app, hook>>

\* the accumulation loop of the current trial ends: line 195
MonteCarloStartRetirement ==
  /\ pc = "runMonteCarloSimulation"
  /\ mc.phase = "accumulation"
  /\ ~(mc.year < mc.inputs.yearsToRetirement)
  /\ mc' = TrialRetirementEntry(mc)
  /\ UNCHANGED <<pc, entry, fire, acc, dd, cpf, call, hb, app, hook>>

\* one year of the retirement phase of the current trial
MonteCarloRetirementYear ==
  /\ pc = "runMonteCarloSimulation"
  /\ mc.phase = "retirement"
  /\ mc.year < mc.retirementYears
  /\ \E random \in RandomDomain : mc' = TrialRetirementYear(mc, random)
  /\ UNCHANGED <<pc, entry, fire, acc, dd, cpf, call, hb, app, hook>>

\* the retirement loop of the current trial ends: lines 203-206
MonteCarloEndTrial ==
  /\ pc = "runMonteCarloSimulation"
  /\ mc.phase = "retirement"
  /\ ~(mc.year < mc.retirementYears)
  /\ mc' = TrialEnd(mc)
  /\ UNCHANGED <<pc, entry, fire, acc, dd, cpf, call, hb, app, hook>>

\* all trials are done: the percentiles are taken and the result returned
MonteCarloReturn ==
  /\ pc = "runMonteCarloSimulation"
  /\ mc.phase = "percentiles"
  /\ mc' = [mc EXCEPT !.result = MonteCarloResult(mc)]
  /\ pc' = "returned"
  /\ UNCHANGED <<entry, fire, acc, dd, cpf, call, hb, app, hook>>

---------------------------------------------------------------------------
(* cpf.ts: rates and limits                                                *)

\* lines 2-10
CPF_RATES ==
  [OA |-> 25000, SA |-> 40000, MA |-> 40000, RA |-> 40000,
   EXTRA_FIRST_60K |-> 10000, EXTRA_55_PLUS_FIRST_30K |-> 10000]

\* lines 13-58 (the employee and employer parts are not used by the engine)
CPF_CONTRIBUTION_RATES ==
  [UNDER_55  |-> [total |-> 370000,
                  allocation |-> [OA |-> 621700, SA |-> 162200, MA |-> 216200]],
   AGE_55_60 |-> [total |-> 295000,
                  allocation |-> [OA |-> 406800, SA |-> 237300, MA |-> 355900]],
   AGE_60_65 |-> [total |-> 205000,
                  allocation |-> [OA |-> 146300, SA |-> 390200, MA |-> 463400]],
   AGE_65_70 |-> [total |-> 155000,
                  allocation |-> [OA |-> 64500, SA |-> 451600, MA |-> 483900]]]

\* line 62
OA_WAGE_CEILING == Dollars(6800)

---------------------------------------------------------------------------
(* cpf.ts: calculateCPFContribution                                        *)

\* a variant of the bracket tests of lines 97-103 with < for <=
ContributionBracketExclusive(age) ==
  IF age < 55 THEN "UNDER_55"
  ELSE IF age < 60 THEN "AGE_55_60"
  ELSE IF age < 65 THEN "AGE_60_65"
  ELSE "AGE_65_70"

\* lines 96-105: the bracket of an age
ContributionBracket(age) ==
  IF age <= 55 THEN "UNDER_55"
  ELSE IF age <= 60 THEN "AGE_55_60"
  ELSE IF age <= 65 THEN "AGE_60_65"
  ELSE "AGE_65_70"

\* lines 90-115
calculateCPFContribution(monthlySalary, age) ==
  LET cappedSalary == Min(monthlySalary, OA_WAGE_CEILING)
      rates == CPF_CONTRIBUTION_RATES[ContributionBracket(age)]
      totalContribution == Mul(cappedSalary, rates.total)
  IN  [OA |-> Mul(totalContribution, rates.allocation.OA),
       SA |-> Mul(totalContribution, rates.allocation.SA),
       MA |-> Mul(totalContribution, rates.allocation.MA),
       total |-> totalContribution]

---------------------------------------------------------------------------
(* cpf.ts: calculateCPFInterest                                            *)

\* a variant of line 128 that caps OA's share at the whole $60,000
OaForExtraUncapped(OA) == Min(OA, Dollars(60000))

\* line 128: OA's share of the first $60,000
OaForExtra(OA) == Min(OA, Dollars(20000))

\* lines 118-164
calculateCPFInterest(balances, age) ==
  LET oaBase == Mul(balances.OA, CPF_RATES.OA)
      saBase == Mul(balances.SA, CPF_RATES.SA)
      maBase == Mul(balances.MA, CPF_RATES.MA)
      oaForExtra == OaForExtra(balances.OA)
      remainingFor60K == Dollars(60000) - oaForExtra
      samaForExtra == Min(balances.SA + balances.MA, remainingFor60K)
      saRatio == IF balances.SA + balances.MA > 0
                 THEN Ratio(balances.SA, balances.SA + balances.MA)
                 ELSE RateUnit \div 2
      saExtra == Mul(samaForExtra, saRatio)
      maExtra == Mul(samaForExtra, RateUnit - saRatio)
      oaFirst == oaBase + Mul(oaForExtra, CPF_RATES.EXTRA_FIRST_60K)
      saFirst == saBase + Mul(saExtra, CPF_RATES.EXTRA_FIRST_60K)
      maFirst == maBase + Mul(maExtra, CPF_RATES.EXTRA_FIRST_60K)
      oaFor30K == Min(balances.OA, Dollars(30000))
      remainingFor30K == Dollars(30000) - oaFor30K
      samaFor30K == Min(balances.SA + balances.MA, remainingFor30K)
      saExtra30K == Mul(samaFor30K, saRatio)
      maExtra30K == Mul(samaFor30K, RateUnit - saRatio)
      oaInterest == IF age >= 55
                    THEN oaFirst + Mul(oaFor30K, CPF_RATES.EXTRA_55_PLUS_FIRST_30K)
                    ELSE oaFirst
      saInterest == IF age >= 55
                    THEN saFirst + Mul(saExtra30K, CPF_RATES.EXTRA_55_PLUS_FIRST_30K)
                    ELSE saFirst
      maInterest == IF age >= 55
                    THEN maFirst + Mul(maExtra30K, CPF_RATES.EXTRA_55_PLUS_FIRST_30K)
                    ELSE maFirst
  IN  [OA |-> oaInterest, SA |-> saInterest, MA |-> maInterest,
       total |-> oaInterest + saInterest + maInterest]

---------------------------------------------------------------------------
(* cpf.ts: projectCPF                                                      *)

MaxYearsToProject == 3

CPFBalancesDomain ==
  {[OA |-> Dollars(0), SA |-> Dollars(0), MA |-> Dollars(0), total |-> Dollars(0)],
   [OA |-> Dollars(8000), SA |-> Dollars(9000), MA |-> Dollars(4000),
    total |-> Dollars(21000)],
   [OA |-> Dollars(100000), SA |-> Dollars(80000), MA |-> Dollars(40000),
    total |-> Dollars(220000)]}
MonthlySalaryDomain == {Dollars(0), Dollars(5000), Dollars(8000)}
CPFCurrentAgeDomain == (52..56) \cup {59, 64}
StopContributionsAtAgeDomain == {50, 55, 57, 65, 70}

\* the frame on entry: lines 174-179 and the loop initialiser of line 181
ProjectCPFEntry(currentBalances, monthlySalary, currentAge, yearsToProject, stopContributionsAtAge) ==
  [currentBalances |-> currentBalances, monthlySalary |-> monthlySalary,
   currentAge |-> currentAge, yearsToProject |-> yearsToProject,
   stopContributionsAtAge |-> stopContributionsAtAge,
   OA |-> currentBalances.OA, SA |-> currentBalances.SA,
   MA |-> currentBalances.MA, RA |-> 0, year |-> 0, projections |-> <<>>]

NoCpfFrame ==
  ProjectCPFEntry([OA |-> 0, SA |-> 0, MA |-> 0, total |-> 0], 0, 0, 0, 0)

\* a variant of the loop condition that leaves the last year out
ProjectCPFLoopsExclusive(f) == f.year < f.yearsToProject

\* line 181: the loop condition
ProjectCPFLoops(f) == f.year <= f.yearsToProject

\* a variant of line 186 with <= for <
StillWorkingInclusive(age, stopContributionsAtAge) ==
  age <= stopContributionsAtAge

\* line 186: contributions are made while still working
StillWorking(age, stopContributionsAtAge) == age < stopContributionsAtAge

\* lines 185-194
AnnualContributions(monthlySalary, age, stopContributionsAtAge) ==
  IF StillWorking(age, stopContributionsAtAge)
  THEN LET monthlyContrib == calculateCPFContribution(monthlySalary, age)
       IN  [OA |-> monthlyContrib.OA * 12, SA |-> monthlyContrib.SA * 12,
            MA |-> monthlyContrib.MA * 12, total |-> monthlyContrib.total * 12]
  ELSE [OA |-> 0, SA |-> 0, MA |-> 0, total |-> 0]

\* a variant of line 197 with a threshold for the equality
TransfersFrom55On(age, year) == age >= 55 /\ year > 0

\* line 197: the iteration in which SA is transferred to RA
TransfersAt55(age, year) == age = 55 /\ year > 0

\* a variant of lines 197-200 in which the transfer is missing
BalancesWithoutTransfer(f, age) ==
  [OA |-> f.OA, SA |-> f.SA, MA |-> f.MA, RA |-> f.RA]

\* a variant of lines 197-200 without the SA = 0 of line 199
BalancesAfterCopy(f, age) ==
  IF TransfersAt55(age, f.year)
  THEN [OA |-> f.OA, SA |-> f.SA, MA |-> f.MA, RA |-> f.SA]
  ELSE [OA |-> f.OA, SA |-> f.SA, MA |-> f.MA, RA |-> f.RA]

\* lines 196-200: OA, SA, MA and RA after the transfer, if it is this iteration's
BalancesAfterTransfer(f, age) ==
  IF TransfersAt55(age, f.year)
  THEN [OA |-> f.OA, SA |-> 0, MA |-> f.MA, RA |-> f.SA]
  ELSE [OA |-> f.OA, SA |-> f.SA, MA |-> f.MA, RA |-> f.RA]

\* lines 223-225: RA a year later
RAGrown(RA, age) == IF age >= 55 THEN RA + Mul(RA, CPF_RATES.RA) ELSE RA

\* lines 182-225: one iteration of the loop, and the year++ of line 181
ProjectCPFIteration(f) ==
  LET year == f.year
      age == f.currentAge + year
      annualContributions ==
        AnnualContributions(f.monthlySalary, age, f.stopContributionsAtAge)
      b == BalancesAfterTransfer(f, age)
      balances == [OA |-> b.OA, SA |-> b.SA, MA |-> b.MA,
                   total |-> b.OA + b.SA + b.MA]
      interest == calculateCPFInterest(balances, age)
  IN  [f EXCEPT
         !.projections = Append(@,
            [age |-> age, year |-> year,
             OA |-> MathRound(b.OA), SA |-> MathRound(b.SA),
             MA |-> MathRound(b.MA), RA |-> MathRound(b.RA),
             total |-> MathRound(b.OA + b.SA + b.MA + b.RA),
             contributions |-> MathRound(annualContributions.total),
             interest |-> MathRound(interest.total)]),
         !.OA = b.OA + annualContributions.OA + interest.OA,
         !.SA = b.SA + annualContributions.SA + interest.SA,
         !.MA = b.MA + annualContributions.MA + interest.MA,
         !.RA = RAGrown(b.RA, age),
         !.year = year + 1]

\* projectCPF is called
CallProjectCPF ==
  /\ pc = "idle"
  /\ \E currentBalances \in CPFBalancesDomain,
        monthlySalary \in MonthlySalaryDomain,
        currentAge \in CPFCurrentAgeDomain,
        yearsToProject \in 0..MaxYearsToProject,
        stopContributionsAtAge \in StopContributionsAtAgeDomain :
       cpf' = ProjectCPFEntry(currentBalances, monthlySalary, currentAge,
                              yearsToProject, stopContributionsAtAge)
  /\ pc' = "projectCPF"
  /\ entry' = "projectCPF"
  /\ UNCHANGED <<fire, acc, dd, mc, call, hb, app, hook>>

\* one iteration of the loop of projectCPF
ProjectCPFStep ==
  /\ pc = "projectCPF"
  /\ ProjectCPFLoops(cpf)
  /\ cpf' = ProjectCPFIteration(cpf)
  /\ UNCHANGED <<pc, entry, fire, acc, dd, mc, call, hb, app, hook>>

\* projectCPF returns its projections (line 228)
ProjectCPFReturn ==
  /\ pc = "projectCPF"
  /\ ~ProjectCPFLoops(cpf)
  /\ pc' = "returned"
  /\ UNCHANGED <<entry, fire, acc, dd, mc, cpf, call, hb, app, hook>>

\* arguments of the direct calls
ContributionAgeDomain == {30, 55, 56, 60, 61, 65, 66, 70}
InterestAgeDomain == {54, 55, 56}
InterestBalancesDomain ==
  [OA : {Dollars(0), Dollars(10000), Dollars(20000), Dollars(25000),
         Dollars(40000), Dollars(100000)},
   SA : {Dollars(0), Dollars(5000), Dollars(30000), Dollars(80000)},
   MA : {Dollars(0), Dollars(10000), Dollars(40000)}]

NoCallFrame ==
  [fn |-> "", monthlySalary |-> 0,
   balances |-> [OA |-> 0, SA |-> 0, MA |-> 0, total |-> 0], age |-> 0,
   result |-> [OA |-> 0, SA |-> 0, MA |-> 0, total |-> 0]]

\* calculateCPFContribution is called and returns
CallCalculateCPFContribution ==
  /\ pc = "idle"
  /\ \E monthlySalary \in MonthlySalaryDomain \cup {Dollars(6800)},
        age \in ContributionAgeDomain :
       call' = [NoCallFrame EXCEPT
                  !.fn = "calculateCPFContribution",
                  !.monthlySalary = monthlySalary, !.age = age,
                  !.result = calculateCPFContribution(monthlySalary, age)]
  /\ pc' = "returned"
  /\ entry' = "calculateCPFContribution"
  /\ UNCHANGED <<fire, acc, dd, mc, cpf, hb, app, hook>>

\* calculateCPFInterest is called and returns
CallCalculateCPFInterest ==
  /\ pc = "idle"
  /\ \E b \in InterestBalancesDomain, age \in InterestAgeDomain :
       LET balances == [OA |-> b.OA, SA |-> b.SA, MA |-> b.MA,
                        total |-> b.OA + b.SA + b.MA]
       IN  call' = [NoCallFrame EXCEPT
                      !.fn = "calculateCPFInterest",
                      !.balances = balances, !.age = age,
                      !.result = calculateCPFInterest(balances, age)]
  /\ pc' = "returned"
  /\ entry' = "calculateCPFInterest"
  /\ UNCHANGED <<fire, acc, dd, mc, cpf, hb, app, hook>>

---------------------------------------------------------------------------
(* cpf.ts: runHistoricalBacktest                                           *)

\* lines 527-624: annual returns of 1928..2023, in millionths
HISTORICAL_RETURNS ==
  <<438100, -83000, -251200, -438400, -86400, 499800, -11900, 467400,
    319400, -353400, 292800, -11000, -106700, -127700, 191700, 250600,
    190300, 358200, -84300, 52000, 57000, 183000, 308100, 236800,
    181500, -12100, 525600, 326000, 74400, -104600, 437200, 120600,
    3400, 266400, -88100, 226100, 164200, 124000, -99700, 238000,
    108100, -82400, 35600, 142200, 187600, -143100, -259000, 370000,
    238300, -69800, 65100, 185200, 317400, -47000, 204200, 223400,
    61500, 312400, 184900, 58100, 165400, 314800, -30600, 302300,
    74900, 99700, 13300, 372000, 226800, 331000, 283400, 208900,
    -90300, -118500, -219700, 283600, 107400, 48300, 156100, 54800,
    -365500, 259400, 148200, 21000, 158900, 321500, 135200, 13800,
    117700, 216100, -42300, 312100, 184000, 284700, -181100, 260600>>

\* lines 627-724: annual inflation of 1928..2023, in millionths
HISTORICAL_INFLATION ==
  <<-11600, 5800, -64000, -93200, -102700, 7600, 19900, 29900,
    12100, 24100, -17800, 0, 9600, 99300, 92900, 31600,
    21100, 22500, 180200, 88800, 27100, -18000, 57900, 58700,
    8800, 6200, -7400, 3700, 28600, 30200, 17600, 15000,
    14800, 6700, 12200, 16500, 9700, 19200, 33500, 30400,
    47200, 61100, 54900, 33600, 34100, 88000, 122000, 70100,
    48100, 67700, 90300, 133100, 124000, 89400, 38700, 38000,
    39500, 37700, 11300, 44100, 44200, 46500, 61200, 30600,
    29000, 27500, 26700, 25400, 33200, 17000, 16100, 26800,
    33900, 15500, 23800, 18800, 32600, 34200, 25400, 40800,
    900, 27200, 15000, 29600, 17400, 15000, 7600, 7300,
    20700, 21100, 19100, 23100, 12300, 70000, 65000, 34000>>

\* the value of yearsDepleted (number | null) while no depletion is recorded
null == 0 - 1

\* the values of a JavaScript result: a number, NaN, undefined or an object
Number(v) == [kind |-> "number", value |-> v]
NaN == [kind |-> "NaN"]
undefined == [kind |-> "undefined"]
Object(o) == [kind |-> "object", value |-> o]

\* x / n as JavaScript divides two numbers of which n is not negative
Quotient(x, n) ==
  IF n = 0 THEN (IF x = 0 THEN NaN ELSE [kind |-> "Infinity"])
  ELSE Number(MulDiv(x, 1, n))

HBInputsDomain ==
  [currentSavings : {Dollars(0), Dollars(100)},
   monthlyContribution : {0, Dollars(1)},
   yearsToRetirement : {0, 1, 2},
   expectedReturn : {Percent(7)},
   inflationRate : {Percent(3)},
   withdrawalRate : {Percent(4), Percent(60)}]
HBRetirementYearsDomain == {1, 3, 94, 95, 96, 97}

\* lines 754 and 757
TotalYearsNeeded(f) == f.inputs.yearsToRetirement + f.retirementYears
MaxStartYear(f) == Len(HISTORICAL_RETURNS) - TotalYearsNeeded(f)

\* a variant of the loop condition that also takes startIdx = maxStartYear
SequenceLoopsInclusive(startIdx, maxStartYear) == startIdx <= maxStartYear

\* line 759: startIdx < maxStartYear
SequenceLoops(startIdx, maxStartYear) == startIdx < maxStartYear

\* lines 760-765: the locals of a sequence on entry to the loop body, or the
\* end of the loop
SequenceEntry(f) ==
  IF SequenceLoops(f.startIdx, MaxStartYear(f))
  THEN [f EXCEPT !.phase = "accumulation", !.year = 0,
                 !.startYear = 1928 + f.startIdx,
                 !.portfolio = f.inputs.currentSavings,
                 !.lowestValue = f.inputs.currentSavings,
                 !.lowestYear = 1928 + f.startIdx,
                 !.yearsDepleted = null,
                 !.realReturns = <<>>,
                 !.withdrawal = 0,
                 !.returnIdxs = <<>>,
                 !.portfolios = <<>>]
  ELSE [f EXCEPT !.phase = "aggregate"]

\* the frame on entry: lines 753-757, and the entry of the first sequence
HistoricalEntry(inputs, currentAge, retirementYears) ==
  SequenceEntry(
    [inputs |-> inputs, currentAge |-> currentAge,
     retirementYears |-> retirementYears,
     sequences |-> <<>>, startIdx |-> 0, startYear |-> 0,
     phase |-> "accumulation", year |-> 0, portfolio |-> 0,
     lowestValue |-> 0, lowestYear |-> 0, yearsDepleted |-> null,
     realReturns |-> <<>>, withdrawal |-> 0,
     returnIdxs |-> <<>>, portfolios |-> <<>>, broke |-> FALSE,
     result |-> [sequences |-> <<>>, successRate |-> undefined,
                 worstSequence |-> undefined, bestSequence |-> undefined,
                 medianFinalValue |-> undefined,
                 averageFinalValue |-> undefined,
                 percentSurvived30Years |-> undefined]])

NoHbFrame == [HistoricalEntry(NoInputs, 0, 0) EXCEPT !.phase = "idle"]

\* lines 772 and 792: (1 + nominalReturn) / (1 + inflation) - 1
RealReturn(nominalReturn, inflation) ==
  MulDiv(RateUnit + nominalReturn, RateUnit, RateUnit + inflation) - RateUnit

\* a variant of the index that leaves out the years of accumulation
RetirementReturnIdxFromStart(f) == f.startIdx + f.year

\* line 787
RetirementReturnIdx(f) == f.startIdx + f.inputs.yearsToRetirement + f.year

\* lines 768-781: one year of the accumulation phase of a sequence
HistoricalAccumulationYear(f) ==
  LET returnIdx == f.startIdx + f.year
      nominalReturn == HISTORICAL_RETURNS[returnIdx + 1]
      inflation == HISTORICAL_INFLATION[returnIdx + 1]
      portfolio == Mul(f.portfolio, RateUnit + nominalReturn)
                     + f.inputs.monthlyContribution * 12
      lower == portfolio < f.lowestValue
  IN  [f EXCEPT !.realReturns = Append(@, RealReturn(nominalReturn, inflation)),
                !.portfolio = portfolio,
                !.lowestValue = IF lower THEN portfolio ELSE @,
                !.lowestYear = IF lower THEN f.startYear + f.year ELSE @,
                !.returnIdxs = Append(@, <<returnIdx, returnIdx>>),
                !.portfolios = Append(@, portfolio),
                !.year = f.year + 1]

\* line 784, and the loop initialiser of line 786
HistoricalRetirementEntry(f) ==
  [f EXCEPT !.phase = "retirement", !.year = 0,
            !.withdrawal = Mul(f.portfolio, f.inputs.withdrawalRate)]

\* a variant of the test that clamps in every year at or below 0
DepletesEveryYear(portfolio, yearsDepleted) == portfolio <= 0

\* line 803: portfolio <= 0 && yearsDepleted === null
Depletes(portfolio, yearsDepleted) == portfolio <= 0 /\ yearsDepleted = null

\* lines 786-807: one year of the retirement phase of a sequence
HistoricalRetirementYear(f) ==
  LET returnIdx == RetirementReturnIdx(f)
  IN  IF returnIdx >= Len(HISTORICAL_RETURNS)
      THEN [f EXCEPT !.phase = "push", !.broke = TRUE]
      ELSE
        LET nominalReturn == HISTORICAL_RETURNS[returnIdx + 1]
            inflation == HISTORICAL_INFLATION[returnIdx + 1]
            portfolio == Mul(f.portfolio, RateUnit + nominalReturn) - f.withdrawal
            lower == portfolio < f.lowestValue /\ portfolio > 0
            depletes == Depletes(portfolio, f.yearsDepleted)
        IN  [f EXCEPT
               !.realReturns = Append(@, RealReturn(nominalReturn, inflation)),
               !.withdrawal = Mul(f.withdrawal, RateUnit + inflation),
               !.lowestValue = IF lower THEN portfolio ELSE @,
               !.lowestYear =
                  IF lower
                  THEN f.startYear + f.inputs.yearsToRetirement + f.year
                  ELSE @,
               !.yearsDepleted = IF depletes THEN f.year ELSE @,
               !.portfolio = IF depletes THEN 0 ELSE portfolio,
               !.returnIdxs = Append(@, <<returnIdx, returnIdx>>),
               !.portfolios = Append(@, IF depletes THEN 0 ELSE portfolio),
               !.year = f.year + 1]

\* a variant of lines 809-818 that counts a portfolio of 0 as survived
HistoricalSequenceSurvivingAtZero(f) ==
  [startYear |-> f.startYear,
   endYear |-> f.startYear + TotalYearsNeeded(f) - 1,
   finalValue |-> Max(0, f.portfolio),
   lowestValue |-> Max(0, f.lowestValue),
   lowestYear |-> f.lowestYear,
   survived |-> f.portfolio >= 0,
   yearsDepleted |-> f.yearsDepleted,
   realReturns |-> f.realReturns]

\* lines 809-818: the record of a sequence
HistoricalSequence(f) ==
  [startYear |-> f.startYear,
   endYear |-> f.startYear + TotalYearsNeeded(f) - 1,
   finalValue |-> Max(0, f.portfolio),
   lowestValue |-> Max(0, f.lowestValue),
   lowestYear |-> f.lowestYear,
   survived |-> f.portfolio > 0,
   yearsDepleted |-> f.yearsDepleted,
   realReturns |-> f.realReturns]

\* lines 809-818, the startIdx++ of line 759, and then either the entry of
\* the next sequence or the end of the loop
HistoricalSequenceEnd(f) ==
  SequenceEntry(
    [f EXCEPT !.sequences = Append(@, HistoricalSequence(f)),
              !.startIdx = f.startIdx + 1])

\* s with the record x inserted after the records whose finalValue is not
\* above its own
RECURSIVE InsertByFinalValue(_, _)
InsertByFinalValue(s, x) ==
  IF s = <<>> THEN <<x>>
  ELSE IF x.finalValue < Head(s).finalValue THEN <<x>> \o s
  ELSE <<Head(s)>> \o InsertByFinalValue(Tail(s), x)

\* line 824: [...sequences].sort((a, b) => a.finalValue - b.finalValue), a
\* stable sort: records of equal finalValue keep their order
RECURSIVE SortByFinalValue(_)
SortByFinalValue(s) ==
  IF s = <<>> THEN <<>>
  ELSE InsertByFinalValue(SortByFinalValue(SubSeq(s, 1, Len(s) - 1)), s[Len(s)])

\* line 830: reduce((a, b) => a + b, 0)
RECURSIVE SumOf(_)
SumOf(s) == IF s = <<>> THEN 0 ELSE Head(s) + SumOf(Tail(s))

\* array[index] (index from 0) as JavaScript reads it
ElementAt(array, index) ==
  IF index >= 0 /\ index < Len(array) THEN Number(array[index + 1])
  ELSE undefined

\* array[index] (index from 0) of an array of objects
ObjectAt(array, index) ==
  IF index >= 0 /\ index < Len(array) THEN Object(array[index + 1])
  ELSE undefined

\* lines 821-840: the value returned
HistoricalBacktestResult(f) ==
  LET sequences == f.sequences
      survivedSequences == SelectSeq(sequences, LAMBDA q : q.survived)
      successRate == IF Len(sequences) = 0 THEN NaN
                     ELSE Number(Ratio(Len(survivedSequences), Len(sequences)))
      sortedByFinal == SortByFinalValue(sequences)
      finalValues ==
        SortAscending([i \in 1..Len(sequences) |-> sequences[i].finalValue])
  IN  [sequences |-> sequences,
       successRate |-> successRate,
       worstSequence |-> ObjectAt(sortedByFinal, 0),
       bestSequence |-> ObjectAt(sortedByFinal, Len(sortedByFinal) - 1),
       medianFinalValue |-> ElementAt(finalValues, Len(finalValues) \div 2),
       averageFinalValue |-> Quotient(SumOf(finalValues), Len(finalValues)),
       percentSurvived30Years |-> successRate]

\* runHistoricalBacktest is called
CallRunHistoricalBacktest ==
  /\ pc = "idle"
  /\ \E inputs \in HBInputsDomain, currentAge \in CurrentAgeDomain,
        retirementYears \in HBRetirementYearsDomain :
       hb' = HistoricalEntry(inputs, currentAge, retirementYears)
  /\ pc' = "runHistoricalBacktest"
  /\ entry' = "runHistoricalBacktest"
  /\ UNCHANGED <<fire, acc, dd, mc, cpf, call, app, hook>>

\* one year of the accumulation phase of the current sequence
HistoricalAccumulationStep ==
  /\ pc = "runHistoricalBacktest"
  /\ hb.phase = "accumulation"
  /\ hb.year < hb.inputs.yearsToRetirement
  /\ hb' = HistoricalAccumulationYear(hb)
  /\ UNCHANGED <<pc, entry, fire, acc, dd, mc, cpf, call, app, hook>>

\* the accumulation loop of the current sequence ends: line 784
HistoricalStartRetirement ==
  /\ pc = "runHistoricalBacktest"
  /\ hb.phase = "accumulation"
  /\ ~(hb.year < hb.inputs.yearsToRetirement)
  /\ hb' = HistoricalRetirementEntry(hb)
  /\ UNCHANGED <<pc, entry, fire, acc, dd, mc, cpf, call, app, hook>>

\* one year of the retirement phase of the current sequence, or its break
HistoricalRetirementStep ==
  /\ pc = "runHistoricalBacktest"
  /\ hb.phase = "retirement"
  /\ hb.year < hb.retirementYears
  /\ hb' = HistoricalRetirementYear(hb)
  /\ UNCHANGED <<pc, entry, fire, acc, dd, mc, cpf, call, app, hook>>

\* the retirement loop of the current sequence ends: lines 809-818
HistoricalEndSequence ==
  /\ pc = "runHistoricalBacktest"
  /\ \/ hb.phase = "retirement" /\ ~(hb.year < hb.retirementYears)
     \/ hb.phase = "push"
  /\ hb' = HistoricalSequenceEnd(hb)
  /\ UNCHANGED <<pc, entry, fire, acc, dd, mc, cpf, call, app, hook>>

\* all sequences are done: the aggregates are taken and the result returned
HistoricalReturn ==
  /\ pc = "runHistoricalBacktest"
  /\ hb.phase = "aggregate"
  /\ hb' = [hb EXCEPT !.result = HistoricalBacktestResult(hb)]
  /\ pc' = "returned"
  /\ UNCHANGED <<entry, fire, acc, dd, mc, cpf, call, app, hook>>

---------------------------------------------------------------------------
(* App.tsx, unnamed/part_001, unnamed/part_004: years of runway            *)

\* unnamed/part_008, costOfLiving.total of the eight countries (USD a month)
countries ==
  <<[name |-> "Malaysia",
     total |-> [frugal |-> Dollars(1000), moderate |-> Dollars(1500), comfortable |-> Dollars(2500)]],
    [name |-> "Taiwan",
     total |-> [frugal |-> Dollars(1200), moderate |-> Dollars(1800), comfortable |-> Dollars(3000)]],
    [name |-> "Thailand",
     total |-> [frugal |-> Dollars(1000), moderate |-> Dollars(1600), comfortable |-> Dollars(2800)]],
    [name |-> "Vietnam",
     total |-> [frugal |-> Dollars(800), moderate |-> Dollars(1200), comfortable |-> Dollars(2000)]],
    [name |-> "Indonesia (Bali)",
     total |-> [frugal |-> Dollars(1100), moderate |-> Dollars(1700), comfortable |-> Dollars(2800)]],
    [name |-> "Philippines",
     total |-> [frugal |-> Dollars(900), moderate |-> Dollars(1400), comfortable |-> Dollars(2400)]],
    [name |-> "Portugal",
     total |-> [frugal |-> Dollars(1800), moderate |-> Dollars(2500), comfortable |-> Dollars(4000)]],
    [name |-> "Japan",
     total |-> [frugal |-> Dollars(1500), moderate |-> Dollars(2200), comfortable |-> Dollars(3500)]]>>

\* App.tsx line 194, part_001 line 232, part_004 line 38
sgdToUsd == 740000

SelectedBudgetDomain == {"frugal", "moderate", "comfortable"}
AppPortfolioAtRetirementDomain ==
  {0, Dollars(100000), Dollars(500000), Dollars(1000000), Dollars(2000000)}
AppWithdrawableDomain == {0, Dollars(300000)}
AppWithdrawalRateDomain == {Percent(4), Percent(100)}

\* App.tsx lines 149-154: combinedPortfolio
combinedPortfolio(includeCPF, portfolioAtRetirement, withdrawable) ==
  IF includeCPF THEN portfolioAtRetirement + withdrawable
  ELSE portfolioAtRetirement

\* App.tsx line 203: Math.min(years, 100)
ClampedYears(years) == Min(years, 100 * RateUnit)

\* App.tsx lines 193-207: runwayData, the years of each country in millionths
runwayData(f) ==
  LET portfolioToUse == IF f.includeCPF THEN f.combinedPortfolio
                        ELSE f.portfolioAtRetirement
      annualWithdrawal == Mul(Mul(portfolioToUse, f.withdrawalRate), sgdToUsd)
  IN  [c \in 1..Len(countries) |->
         LET annualBudget == countries[c].total[f.selectedBudget] * 12
             years == Ratio(annualWithdrawal, annualBudget)
         IN  [country |-> countries[c].name, years |-> ClampedYears(years)]]

\* unnamed/part_001 lines 231-247: runwayData of that version of the App
runwayDataOfPart001(f) ==
  LET portfolioToUse == IF f.includeCPF THEN f.combinedPortfolio
                        ELSE f.portfolioAtRetirement
      portfolioInUSD == Mul(portfolioToUse, sgdToUsd)
  IN  [c \in 1..Len(countries) |->
         LET annualBudget == countries[c].total[f.selectedBudget] * 12
             years == Ratio(portfolioInUSD, annualBudget)
         IN  [country |-> countries[c].name, years |-> ClampedYears(years)]]

\* unnamed/part_004 lines 36-42: yearsOfRunway of the CountryCard of a country
yearsOfRunway(country, selectedBudget, portfolioValue, withdrawalRate) ==
  LET monthlyBudget == country.total[selectedBudget]
      annualBudget == monthlyBudget * 12
      annualWithdrawal == Mul(Mul(portfolioValue, withdrawalRate), sgdToUsd)
  IN  Ratio(annualWithdrawal, annualBudget)

\* the memos of a render of the App: App.tsx lines 149-154, 193-207 and
\* 628-632, and part_001 lines 231-247
Rendered(f) ==
  LET g == [f EXCEPT !.combinedPortfolio =
                        combinedPortfolio(f.includeCPF, f.portfolioAtRetirement,
                                          f.withdrawable)]
      portfolioValue == IF g.includeCPF THEN g.combinedPortfolio
                        ELSE g.portfolioAtRetirement
  IN  [g EXCEPT
         !.runwayData = runwayData(g),
         !.runwayDataOfPart001 = runwayDataOfPart001(g),
         !.cards = [c \in 1..Len(countries) |->
                      yearsOfRunway(countries[c], g.selectedBudget,
                                    portfolioValue, g.withdrawalRate)]]

NoAppFrame ==
  [includeCPF |-> FALSE, selectedBudget |-> "moderate", withdrawalRate |-> 0,
   portfolioAtRetirement |-> 0, withdrawable |-> 0, combinedPortfolio |-> 0,
   runwayData |-> <<>>, runwayDataOfPart001 |-> <<>>, cards |-> <<>>]

\* the App renders for the first time, with the selectedBudget and the
\* includeCPF of the default state (unnamed/part_003 lines 29 and 34), a
\* FIRE result and a CPF projection
AppRender ==
  /\ pc = "idle"
  /\ \E withdrawalRate \in AppWithdrawalRateDomain,
        portfolioAtRetirement \in AppPortfolioAtRetirementDomain,
        withdrawable \in AppWithdrawableDomain :
       app' = Rendered([NoAppFrame EXCEPT
                          !.includeCPF = TRUE,
                          !.selectedBudget = "moderate",
                          !.withdrawalRate = withdrawalRate,
                          !.portfolioAtRetirement = portfolioAtRetirement,
                          !.withdrawable = withdrawable])
  /\ pc' = "App"
  /\ entry' = "App"
  /\ UNCHANGED <<fire, acc, dd, mc, cpf, call, hb, hook>>

\* App.tsx line 386: updateField("includeCPF", checked), and the render
AppSetIncludeCPF ==
  /\ pc = "App"
  /\ \E checked \in BOOLEAN :
       app' = Rendered([app EXCEPT !.includeCPF = checked])
  /\ UNCHANGED <<pc, entry, fire, acc, dd, mc, cpf, call, hb, hook>>

\* App.tsx line 342: updateField("selectedBudget", budget), and the render
AppSetSelectedBudget ==
  /\ pc = "App"
  /\ \E budget \in SelectedBudgetDomain :
       app' = Rendered([app EXCEPT !.selectedBudget = budget])
  /\ UNCHANGED <<pc, entry, fire, acc, dd, mc, cpf, call, hb, hook>>

---------------------------------------------------------------------------
(* unnamed/part_003: usePersistedState                                     *)

\* lines 21-35, in the units of the model
defaultState ==
  [currentAge |-> 35, currentSavings |-> Dollars(500000),
   monthlyContribution |-> Dollars(5000), yearsToRetirement |-> 10,
   expectedReturn |-> Percent(7), inflationRate |-> Percent(3),
   withdrawalRate |-> Percent(4), selectedBudget |-> "moderate",
   cpfOA |-> Dollars(100000), cpfSA |-> Dollars(80000),
   cpfMA |-> Dollars(40000), monthlySalary |-> Dollars(8000),
   includeCPF |-> TRUE]

\* the values of JSON that are not numbers or objects
JsNull == [kind |-> "null"]
EmptyArray == [kind |-> "array"]

\* a string is known by what atob and JSON.parse make of it: whether it is
\* base64, whether it (or, for base64, the text it encodes) is JSON, and the
\* value the JSON text denotes
Base64OfJson(v) == [kind |-> "string", base64 |-> TRUE, json |-> TRUE, value |-> v]
Base64OfText == [kind |-> "string", base64 |-> TRUE, json |-> FALSE, value |-> JsNull]
NotBase64 == [kind |-> "string", base64 |-> FALSE, json |-> FALSE, value |-> JsNull]
JsonText(v) == [kind |-> "string", base64 |-> FALSE, json |-> TRUE, value |-> v]
EmptyString == [kind |-> "empty", base64 |-> TRUE, json |-> FALSE, value |-> JsNull]
\* urlParams.get("s") and localStorage.getItem return null for no entry
NoEntry == [kind |-> "absent", base64 |-> FALSE, json |-> FALSE, value |-> JsNull]
\* a localStorage whose getItem and setItem throw
Unavailable == [kind |-> "unavailable", base64 |-> FALSE, json |-> FALSE, value |-> JsNull]

\* a state saved or shared earlier, and objects that lack fields
SavedState == [defaultState EXCEPT !.currentAge = 40, !.selectedBudget = "frugal"]
PartialState == [currentAge |-> 50, includeCPF |-> FALSE]
AllButOne ==
  [k \in (DOMAIN defaultState) \ {"includeCPF"} |-> defaultState[k]]

JsonValueDomain ==
  {JsNull, Number(5), EmptyArray, Object(PartialState), Object(AllButOne),
   Object(SavedState), Object(defaultState)}

\* the values of window.location.search's parameter s
SharedStateDomain ==
  {NoEntry, EmptyString, NotBase64, Base64OfText}
    \cup {Base64OfJson(v) : v \in JsonValueDomain}

\* the contents of localStorage under STORAGE_KEY
StorageDomain ==
  {NoEntry, Unavailable, EmptyString, NotBase64}
    \cup {JsonText(v) : v \in {JsNull, Number(5), Object(PartialState),
                               Object(SavedState)}}

\* a string is truthy unless it is empty; null is not
Truthy(s) == s.kind = "string"

\* a variant of lines 50-55 without the check of the required fields
RequiredKeysUnchecked(parsed) == TRUE

\* lines 50-55: every key of defaultState is in parsed
RequiredKeysPresent(parsed) ==
  \A key \in DOMAIN defaultState : key \in DOMAIN parsed.value

\* lines 44-59: decodeState; atob throws for a string that is not base64,
\* JSON.parse for a text that is not JSON, and the in operator for a value
\* that is not an object; the catch of line 56 returns null for all three
decodeState(encoded) ==
  IF ~encoded.base64 THEN JsNull
  ELSE IF ~encoded.json THEN JsNull
  ELSE LET parsed == encoded.value
       IN  \* key in parsed throws for null and for a number
           IF parsed.kind \notin {"object", "array"} THEN JsNull
           \* an empty array has none of the keys
           ELSE IF parsed.kind = "array" THEN JsNull
           ELSE IF ~RequiredKeysPresent(parsed) THEN JsNull
           ELSE parsed

\* { ...a, ...b } for two objects
SpreadOver(a, b) ==
  [k \in (DOMAIN a) \cup (DOMAIN b) |-> IF k \in DOMAIN b THEN b[k] ELSE a[k]]

\* lines 75-85: the state read from localStorage, or defaultState; spreading
\* null, a number or an empty array adds no field
LoadFromStorage(stored) ==
  IF stored.kind = "unavailable" THEN defaultState
  ELSE IF ~Truthy(stored) THEN defaultState
  ELSE IF ~stored.json THEN defaultState
  ELSE IF stored.value.kind = "object"
       THEN SpreadOver(defaultState, stored.value.value)
       ELSE defaultState

\* lines 62-87: loadInitialState, the state returned and whether line 70
\* cleared the parameters of the URL
loadInitialState(sharedState, stored) ==
  LET decoded == IF Truthy(sharedState) THEN decodeState(sharedState) ELSE JsNull
  IN  IF Truthy(sharedState) /\ decoded.kind = "object"
      THEN [state |-> decoded.value, cleared |-> TRUE]
      ELSE [state |-> LoadFromStorage(stored), cleared |-> FALSE]

\* lines 90-96: saveState, the contents of localStorage afterwards
saveState(state, stored) ==
  IF stored.kind = "unavailable" THEN stored ELSE JsonText(Object(state))

NoHookFrame ==
  [sharedState |-> NoEntry, stored |-> NoEntry, initial |-> defaultState,
   cleared |-> FALSE, state |-> defaultState, localStorage |-> NoEntry]

UpdateDomain ==
  {<<"currentAge", 35>>, <<"currentAge", 45>>, <<"includeCPF", TRUE>>,
   <<"includeCPF", FALSE>>, <<"selectedBudget", "comfortable">>}

\* lines 98-104: the hook mounts: useState(loadInitialState), and the effect
\* that saves the state
MountUsePersistedState ==
  /\ pc = "idle"
  /\ \E sharedState \in SharedStateDomain, stored \in StorageDomain :
       LET loaded == loadInitialState(sharedState, stored)
       IN  hook' = [sharedState |-> sharedState, stored |-> stored,
                    initial |-> loaded.state, cleared |-> loaded.cleared,
                    state |-> loaded.state,
                    localStorage |-> saveState(loaded.state, stored)]
  /\ pc' = "usePersistedState"
  /\ entry' = "usePersistedState"
  /\ UNCHANGED <<fire, acc, dd, mc, cpf, call, hb, app>>

\* lines 130-135: updateField, and the effect that saves the state
UpdateField ==
  /\ pc = "usePersistedState"
  /\ \E u \in UpdateDomain :
       LET state == [hook.state EXCEPT ![u[1]] = u[2]]
       IN  hook' = [hook EXCEPT !.state = state,
                                !.localStorage = saveState(state, hook.localStorage)]
  /\ UNCHANGED <<pc, entry, fire, acc, dd, mc, cpf, call, hb, app>>

\* lines 125-127: resetToDefaults, and the effect that saves the state
ResetToDefaults ==
  /\ pc = "usePersistedState"
  /\ hook' = [hook EXCEPT !.state = defaultState,
                          !.localStorage = saveState(defaultState, hook.localStorage)]
  /\ UNCHANGED <<pc, entry, fire, acc, dd, mc, cpf, call, hb, app>>

---------------------------------------------------------------------------
(* Specifications                                                          *)

Init ==
  /\ pc = "idle"
  /\ entry = ""
  /\ fire = NoFire
  /\ acc = NoAcc
  /\ dd = NoDd
  /\ mc = NoMcFrame
  /\ cpf = NoCpfFrame
  /\ call = NoCallFrame
  /\ hb = NoHbFrame
  /\ app = NoAppFrame
  /\ hook = NoHookFrame

\* the deterministic simulator of calculator.ts
NextSim ==
  \/ CallCalculateFIRE
  \/ AccumulationStep
  \/ FIRECallDrawdown
  \/ CallCalculateDrawdown
  \/ DrawdownStep
  \/ DrawdownReturn
  \/ FIREReturn

SpecSim == Init /\ [][NextSim]_vars

\* the Monte Carlo engine of calculator.ts
NextMC ==
  \/ CallRunMonteCarloSimulation
  \/ MonteCarloAccumulationYear
  \/ MonteCarloStartRetirement
  \/ MonteCarloRetirementYear
  \/ MonteCarloEndTrial
  \/ MonteCarloReturn

SpecMC == Init /\ [][NextMC]_vars

\* the CPF engine of cpf.ts
NextCPF ==
  \/ CallProjectCPF
  \/ ProjectCPFStep
  \/ ProjectCPFReturn
  \/ CallCalculateCPFContribution
  \/ CallCalculateCPFInterest

SpecCPF == Init /\ [][NextCPF]_vars

\* the historical backtest of cpf.ts
NextHB ==
  \/ CallRunHistoricalBacktest
  \/ HistoricalAccumulationStep
  \/ HistoricalStartRetirement
  \/ HistoricalRetirementStep
  \/ HistoricalEndSequence
  \/ HistoricalReturn

SpecHB == Init /\ [][NextHB]_vars

\* the runway comparison of the App
NextApp ==
  \/ AppRender
  \/ AppSetIncludeCPF
  \/ AppSetSelectedBudget

SpecApp == Init /\ [][NextApp]_vars

\* the persisted state of the App
NextHook ==
  \/ MountUsePersistedState
  \/ UpdateField
  \/ ResetToDefaults

SpecHook == Init /\ [][NextHook]_vars

---------------------------------------------------------------------------
(* Claims about the deterministic simulator (under SpecSim)                *)

FIREReturned == pc = "returned" /\ entry = "calculateFIRE"
DrawdownReturned == pc = "returned" /\ entry = "calculateDrawdown"

\* savings compounded at rate for n years with one annual contribution in
\* each of the years 1..n, each compounding from the year it is made
RECURSIVE CompoundedWithContributions(_, _, _, _)
CompoundedWithContributions(savings, annual, rate, n) ==
  IF n = 0 THEN savings
  ELSE LET before == CompoundedWithContributions(savings, annual, rate, n - 1)
       IN  before + Mul(before, rate) + annual

\* C1: the portfolioAtRetirement calculateFIRE returns is currentSavings
\* compounded for yearsToRetirement years plus yearsToRetirement annual
\* contributions of 12 * monthlyContribution; with expectedReturn = 0 it is
\* currentSavings + yearsToRetirement * 12 * monthlyContribution.
C1_PortfolioAtRetirementHasEveryContribution ==
  FIREReturned =>
    LET inputs == fire.inputs
    IN  /\ fire.result.portfolioAtRetirement =
             CompoundedWithContributions(inputs.currentSavings,
               12 * inputs.monthlyContribution, inputs.expectedReturn,
               inputs.yearsToRetirement)
        /\ inputs.expectedReturn = 0 =>
             fire.result.portfolioAtRetirement =
               inputs.currentSavings
                 + inputs.yearsToRetirement * 12 * inputs.monthlyContribution

\* C2: calculateAccumulation returns yearsToRetirement + 1 records, the
\* first for year 0 with contribution 0, and every record has withdrawal 0.
C2_AccumulationLength ==
  entry = "calculateFIRE" =>
    /\ \A i \in 1..Len(acc.results) :
         /\ acc.results[i].withdrawal = 0
         /\ acc.results[i].year = i - 1
         /\ acc.results[i].year = 0 => acc.results[i].contribution = 0
    /\ ~AccumulationLoops(acc) =>
         Len(acc.results) = acc.inputs.yearsToRetirement + 1

\* a finished accumulation of at least a year with a contribution recorded
C2_Witness ==
  /\ entry = "calculateFIRE"
  /\ ~AccumulationLoops(acc)
  /\ acc.inputs.yearsToRetirement >= 1
  /\ acc.results[1].contribution = 0
  /\ acc.results[2].contribution > 0

ZeroRecord(r) ==
  /\ r.portfolioValue = 0
  /\ r.contribution = 0
  /\ r.returns = 0
  /\ r.withdrawal = 0
  /\ r.inflationAdjustedValue = 0

\* C3: in the records of calculateDrawdown, a record with portfolioValue 0
\* and every record after it have portfolioValue, contribution, returns,
\* withdrawal and inflationAdjustedValue all 0.
C3_DepletionIsFinal ==
  pc \in {"calculateDrawdown", "returned"} =>
    \A i \in 1..Len(dd.results) :
      dd.results[i].portfolioValue = 0 =>
        \A j \in i..Len(dd.results) : ZeroRecord(dd.results[j])

\* a returned drawdown that was positive, was depleted, and has records
\* after the first record of 0
C3_Witness ==
  /\ pc = "returned"
  /\ \E i \in 1..Len(dd.results) :
       /\ dd.results[i].portfolioValue > 0
       /\ dd.results[i].withdrawal > 0
       /\ i + 2 <= Len(dd.results)
       /\ dd.results[i + 1].portfolioValue = 0


---------------------------------------------------------------------------
(* Claims about the CPF engine (under SpecCPF)                             *)

\* the run of projectCPF has a record for this age
HasRecord(age) ==
  /\ entry = "projectCPF"
  /\ age >= cpf.currentAge
  /\ age - cpf.currentAge + 1 <= Len(cpf.projections)

\* the record of projectCPF for an age
Rec(age) == cpf.projections[age - cpf.currentAge + 1]

\* the run of projectCPF starts below age 55
StartsBelow55 == entry = "projectCPF" /\ cpf.currentAge < 55

\* the loop of projectCPF is about to run the iteration for this age
IterationFor(age) ==
  /\ pc = "projectCPF"
  /\ ProjectCPFLoops(cpf)
  /\ cpf.currentAge + cpf.year = age

\* C4: in the bracket of every call of calculateCPFContribution the
\* allocation ratios OA + SA + MA sum to 1.0 within 1e-6, and the OA, SA and
\* MA parts returned add up to the total (to the rounding of three products).
C4_AllocationsSumToOne ==
  entry = "calculateCPFContribution" =>
    LET alloc == CPF_CONTRIBUTION_RATES[ContributionBracket(call.age)].allocation
    IN  /\ Abs(alloc.OA + alloc.SA + alloc.MA - RateUnit) <= 1
        /\ Abs(call.result.OA + call.result.SA + call.result.MA
                 - call.result.total) <= 2

ContributesFrom55 ==
  cpf.monthlySalary > 0 /\ cpf.stopContributionsAtAge > 55

C8_SingleTransfer ==
  /\ [][(pc = "projectCPF" /\ ProjectCPFLoops(cpf)) =>
          LET age == cpf.currentAge + cpf.year
          IN  IF age = 55 /\ cpf.year > 0
              THEN /\ cpf.RA = 0
                   /\ cpf'.RA = cpf.SA + Mul(cpf.SA, Percent(4))
              ELSE /\ Last(cpf'.projections).RA = MathRound(cpf.RA)
                   /\ cpf'.RA = IF age >= 55
                                THEN cpf.RA + Mul(cpf.RA, Percent(4))
                                ELSE cpf.RA
       ]_vars
  /\ [](entry = "projectCPF" =>
          \A i \in 1..Len(cpf.projections) :
            (cpf.projections[i].age < 55 \/ cpf.currentAge >= 55)
              => cpf.projections[i].RA = 0)

\* a returned run across 55 with RA 0 before, and compounding after
C8_Witness ==
  /\ pc = "returned"
  /\ StartsBelow55
  /\ HasRecord(57)
  /\ cpf.monthlySalary > 0
  /\ cpf.stopContributionsAtAge > 55
  /\ Rec(54).RA = 0
  /\ Rec(55).RA > 0
  /\ Rec(56).RA > Rec(55).RA
  /\ Rec(57).RA > Rec(56).RA

\* the total interest as the claim states it
ClaimedInterest(balances, age) ==
  LET oaShare == Min(balances.OA, Dollars(20000))
      samaShare == Min(balances.SA + balances.MA, Dollars(60000) - oaShare)
  IN  Mul(balances.OA, 25000)
        + Mul(balances.SA + balances.MA, 40000)
        + Mul(oaShare + samaShare, 10000)
        + (IF age >= 55
           THEN Mul(Min(balances.OA + balances.SA + balances.MA, Dollars(30000)),
                    10000)
           ELSE 0)

\* C9: the total calculateCPFInterest returns is 2.5% of OA + 4% of SA+MA
\* + 1% of (min(OA, 20000) + min(SA+MA, 60000 - min(OA, 20000)))
\* + (from age 55) 1% of min(OA+SA+MA, 30000), to the cent rounding of the
\* products; the OA part is exact, and the bonus on SA and MA is split in
\* the proportion SA : MA.
C9_InterestTotal ==
  entry = "calculateCPFInterest" =>
    LET b == call.balances
        r == call.result
        saBonus == r.SA - Mul(b.SA, 40000)
        maBonus == r.MA - Mul(b.MA, 40000)
    IN  /\ r.total = r.OA + r.SA + r.MA
        /\ Abs(r.total - ClaimedInterest(b, call.age)) <= 2
        /\ r.OA = Mul(b.OA, 25000) + Mul(Min(b.OA, Dollars(20000)), 10000)
                    + (IF call.age >= 55
                       THEN Mul(Min(b.OA, Dollars(30000)), 10000) ELSE 0)
        /\ saBonus >= 0 /\ maBonus >= 0
        /\ (b.SA + b.MA > 0 /\ saBonus + maBonus > 0) =>
             Abs(Ratio(saBonus, saBonus + maBonus) - Ratio(b.SA, b.SA + b.MA))
               <= 100

\* a call at 55 or later in which both caps bind and SA and MA share a bonus
C9_Witness ==
  /\ entry = "calculateCPFInterest"
  /\ call.age >= 55
  /\ call.balances.OA > Dollars(20000)
  /\ call.balances.SA > 0
  /\ call.balances.MA > 0
  /\ call.balances.SA + call.balances.MA > Dollars(40000)
  /\ call.result.total =
       Mul(call.balances.OA, 25000)
         + Mul(call.balances.SA + call.balances.MA, 40000)
         + Dollars(600) + Dollars(300)


---------------------------------------------------------------------------
(* runMonteCarloSimulation: the percentile bands                           *)

MonteCarloReturned == pc = "returned" /\ entry = "runMonteCarloSimulation"

PercentileLevels ==
  {Percent(5), Percent(25), Percent(50), Percent(75), Percent(95)}

\* C10: for every year offset of a runMonteCarloSimulation result with
\* simulations >= 1 the five percentile values are in ascending order,
\* percentile5 <= percentile25 <= percentile50 <= percentile75 <=
\* percentile95, and every index floor(simulations * p) that is selected lies
\* inside the sorted array of the trial values (0 .. simulations - 1).
C10_PercentilesOrdered ==
  MonteCarloReturned =>
    LET r == mc.result
    IN  /\ Len(mc.allResults) = mc.simulations
        /\ \A p \in PercentileLevels :
             PercentileIndex(mc.simulations, p) \in 0..(mc.simulations - 1)
        /\ Len(r.percentile5) = mc.inputs.yearsToRetirement + mc.retirementYears
        /\ \A y \in 1..Len(r.percentile5) :
             /\ r.percentile5[y] <= r.percentile25[y]
             /\ r.percentile25[y] <= r.percentile50[y]
             /\ r.percentile50[y] <= r.percentile75[y]
             /\ r.percentile75[y] <= r.percentile95[y]

\* a result of at least three trials, drawn in descending order of their
\* first value, whose 5th, 50th and 95th percentiles differ in some year
C10_Witness ==
  /\ MonteCarloReturned
  /\ mc.simulations >= 3
  /\ mc.allResults[1][1] > mc.allResults[2][1]
  /\ mc.allResults[2][1] > mc.allResults[3][1]
  /\ \E y \in 1..Len(mc.result.percentile5) :
       /\ mc.result.percentile5[y] < mc.result.percentile50[y]
       /\ mc.result.percentile50[y] < mc.result.percentile95[y]

\* the sequence s with the elements at positions i and j exchanged
Swapped(s, i, j) ==
  [k \in 1..Len(s) |-> IF k = i THEN s[j] ELSE IF k = j THEN s[i] ELSE s[k]]

\* the number of trials of a list that end above 0
SuccessesOf(allResults) ==
  Cardinality({i \in 1..Len(allResults) : Last(allResults[i]) > 0})

\* C11: the aggregation of runMonteCarloSimulation depends only on the
\* multiset of the per-trial outcome vectors: exchanging two neighbouring
\* trials of the list (and so, by composition, any permutation of it, every
\* order of the trials being one the run can produce) before the aggregation leaves
\* the five percentile arrays, successRate and medianEndValue unchanged.
C11_OrderIndependent ==
  MonteCarloReturned =>
    /\ mc.successCount = SuccessesOf(mc.allResults)
    /\ \A i \in 1..(Len(mc.allResults) - 1) :
         LET shuffled == Swapped(mc.allResults, i, i + 1)
         IN  MonteCarloResult(
               [mc EXCEPT !.allResults = shuffled,
                          !.successCount = SuccessesOf(shuffled)]) = mc.result

\* a result of three or more trials that differ, not drawn in ascending
\* order, of which some end above 0 and some at 0
C11_Witness ==
  /\ MonteCarloReturned
  /\ mc.simulations >= 3
  /\ mc.retirementYears = 2
  /\ mc.allResults[1] # mc.allResults[2]
  /\ mc.allResults[2] # mc.allResults[3]
  /\ Last(mc.allResults[1]) > Last(mc.allResults[2])
  /\ Last(mc.allResults[3]) > 0
  /\ Last(mc.allResults[2]) = 0
  /\ mc.result.successRate > 0
  /\ mc.result.successRate < RateUnit

\* the values of the trials at a year offset (from 1), in trial order
TrialValuesAt(y) == [i \in 1..Len(mc.allResults) |-> mc.allResults[i][y]]

\* v is the element at index k (from 0) of the values xs sorted ascending:
\* it is one of the values, at most k values are below it and more than k
\* values are not above it
IsOrderStatistic(v, xs, k) ==
  /\ \E i \in 1..Len(xs) : xs[i] = v
  /\ Cardinality({i \in 1..Len(xs) : xs[i] < v}) <= k
  /\ Cardinality({i \in 1..Len(xs) : xs[i] <= v}) > k

\* k is floor(simulations * p / 100) for a percentage p
IsFloorOfShare(k, simulations, p) ==
  /\ k * 100 <= simulations * p
  /\ simulations * p < (k + 1) * 100

\* C12: each of the five percentile arrays of runMonteCarloSimulation has
\* length yearsToRetirement + retirementYears, and its entry at year offset y
\* is the element at index floor(simulations * p) (p = 0.05, 0.25, 0.5, 0.75,
\* 0.95) of that year's trial values sorted ascending: one of the trial
\* values itself (nearest rank), never a value between two of them.
C12_NearestRank ==
  MonteCarloReturned =>
    LET r == mc.result
        n == mc.inputs.yearsToRetirement + mc.retirementYears
        Entry(arr, p) ==
          /\ Len(arr) = n
          /\ \A y \in 1..n :
               \E k \in 0..(mc.simulations - 1) :
                 /\ IsFloorOfShare(k, mc.simulations, p)
                 /\ IsOrderStatistic(arr[y], TrialValuesAt(y), k)
    IN  /\ Entry(r.percentile5, 5)
        /\ Entry(r.percentile25, 25)
        /\ Entry(r.percentile50, 50)
        /\ Entry(r.percentile75, 75)
        /\ Entry(r.percentile95, 95)

\* a result over an accumulation year and a retirement year of three trials
\* whose values differ in the last year: the 25th percentile is the lowest,
\* the 50th the middle and the 75th the highest of them
C12_Witness ==
  /\ MonteCarloReturned
  /\ mc.simulations = 3
  /\ mc.inputs.yearsToRetirement = 1
  /\ Len(mc.result.percentile50) = 2
  /\ mc.result.percentile25[2] < mc.result.percentile50[2]
  /\ mc.result.percentile50[2] < mc.result.percentile75[2]
  /\ mc.allResults[1][2] = mc.result.percentile75[2]
  /\ mc.allResults[3][2] = mc.result.percentile50[2]

---------------------------------------------------------------------------
(* Claims about the historical backtest (under SpecHB)                     *)

HistoricalCalled == entry = "runHistoricalBacktest"
HistoricalReturned == pc = "returned" /\ entry = "runHistoricalBacktest"

C14_EveryFittingWindow ==
  HistoricalReturned =>
    \A s \in 0..95 :
      s + TotalYearsNeeded(hb) <= 96 =>
        \E i \in 1..Len(hb.result.sequences) :
          hb.result.sequences[i].startYear = 1928 + s

\* the aggregate is a number or an object, not NaN and not undefined
Defined(v) == v.kind \in {"number", "object"}

\* C15: when yearsToRetirement + retirementYears is at least 96,
\* runHistoricalBacktest returns an empty list of sequences and every
\* aggregate it returns (successRate, worstSequence, bestSequence,
\* medianFinalValue, averageFinalValue) is a defined value.
C15_TotalOnLongHorizon ==
  (HistoricalReturned /\ TotalYearsNeeded(hb) >= 96) =>
    /\ hb.result.sequences = <<>>
    /\ Defined(hb.result.successRate)
    /\ Defined(hb.result.worstSequence)
    /\ Defined(hb.result.bestSequence)
    /\ Defined(hb.result.medianFinalValue)
    /\ Defined(hb.result.averageFinalValue)

\* the body of the sequence loop has run to its end for the current sequence
SequenceDone ==
  /\ pc = "runHistoricalBacktest"
  /\ \/ hb.phase = "retirement" /\ ~(hb.year < hb.retirementYears)
     \/ hb.phase = "push"

\* C16: step k (from 0, accumulation years first, then drawdown years) of the
\* sequence with start index s reads the nominal return and the inflation at
\* index s + k, every such index is within 0..95 (the break never fires), and
\* each sequence records exactly yearsToRetirement + retirementYears
\* realReturns with endYear = startYear + totalYearsNeeded - 1.
C16_IndexAlignment ==
  /\ [](HistoricalCalled => (~hb.broke /\ hb.phase # "push"))
  /\ []((pc = "runHistoricalBacktest" /\ hb.phase # "aggregate") =>
          \A k \in 1..Len(hb.returnIdxs) :
               /\ hb.returnIdxs[k] = <<hb.startIdx + k - 1, hb.startIdx + k - 1>>
               /\ hb.startIdx + k - 1 \in 0..95
               /\ hb.realReturns[k] =
                    RealReturn(HISTORICAL_RETURNS[hb.startIdx + k],
                               HISTORICAL_INFLATION[hb.startIdx + k]))
  /\ [][SequenceDone =>
          /\ Len(hb.returnIdxs) = TotalYearsNeeded(hb)
          /\ Len(Last(hb'.sequences).realReturns) = TotalYearsNeeded(hb)
          /\ Last(hb'.sequences).realReturns = hb.realReturns
          /\ Last(hb'.sequences).startYear = 1928 + hb.startIdx
          /\ Last(hb'.sequences).endYear =
               Last(hb'.sequences).startYear + TotalYearsNeeded(hb) - 1
       ]_vars

\* the last sequence of a run with 2 accumulation and 3 drawdown years is
\* done: it read the indices 90..94
C16_Witness ==
  /\ SequenceDone
  /\ hb.inputs.yearsToRetirement = 2
  /\ hb.retirementYears = 3
  /\ hb.startIdx = 90
  /\ Len(hb.sequences) = 90
  /\ hb.returnIdxs[3] = <<92, 92>>
  /\ hb.returnIdxs[5] = <<94, 94>>
  /\ Last(hb.sequences).endYear = 2021

\* the portfolio at the end of the drawdown year at an offset (from 0) of the
\* current sequence
DrawdownPortfolio(y) == hb.portfolios[hb.inputs.yearsToRetirement + y + 1]

\* a drawdown phase of the current sequence is in progress or done
InDrawdown ==
  /\ pc = "runHistoricalBacktest"
  /\ hb.phase = "retirement"

---------------------------------------------------------------------------
(* Claims about the runway comparison (under SpecApp)                      *)

AppRendered == entry = "App"

\* the portfolio the claim names: portfolioAtRetirement, plus the projected
\* CPF total when includeCPF is set
ClaimedPortfolio ==
  IF app.includeCPF THEN app.portfolioAtRetirement + app.withdrawable
  ELSE app.portfolioAtRetirement

\* portfolio * withdrawalRate * 0.74 / (monthly cost * 12), in millionths of
\* a year
ClaimedYears(c) ==
  MulDiv(Mul(ClaimedPortfolio, Mul(app.withdrawalRate, sgdToUsd)),
         RateUnit, countries[c].total[app.selectedBudget] * 12)

\* C18: the years of runway of every country equal
\* portfolio * withdrawalRate * 0.74 / (monthly cost at the chosen tier * 12),
\* where portfolio is portfolioAtRetirement plus the projected CPF total when
\* includeCPF is set and portfolioAtRetirement alone otherwise; the value
\* reported in runwayData is that value clamped to at most 100 (to a
\* millionth of a year), in both versions of the App and in the CountryCard.
C18_RunwayYears ==
  AppRendered =>
    \A c \in 1..Len(countries) :
      /\ Abs(app.cards[c] - ClaimedYears(c)) <= 2
      /\ Abs(app.runwayData[c].years - Min(ClaimedYears(c), 100 * RateUnit)) <= 2
      /\ Abs(app.runwayDataOfPart001[c].years
               - Min(ClaimedYears(c), 100 * RateUnit)) <= 2

---------------------------------------------------------------------------
(* Claims about the record sequences of the simulator (under SpecSim)      *)

\* the records are ordered by their year field, strictly ascending
YearAscending(records) ==
  \A i \in 1..(Len(records) - 1) : records[i].year < records[i + 1].year

\* C19: every SimulationResult sequence the simulator returns is ordered by
\* its year field strictly ascending: the results of calculateAccumulation
\* and of calculateDrawdown, and the projections list of calculateFIRE
\* (accumulation records followed by drawdown records) from first to last.
C19_YearAscending ==
  /\ YearAscending(acc.results)
  /\ YearAscending(dd.results)
  /\ FIREReturned => YearAscending(fire.result.projections)

---------------------------------------------------------------------------
(* Claims about the records of projectCPF (under SpecCPF)                  *)

\* C20: projectCPF returns exactly yearsToProject + 1 records with
\* year = 0, 1, ..., yearsToProject and age = currentAge + year; each record
\* shows the balances before that year's contributions and interest are
\* added; record 0 carries the caller's starting OA, SA and MA (rounded)
\* with RA = 0, for every currentAge.
C20_OneRecordPerYear ==
  /\ [](entry = "projectCPF" =>
          /\ \A i \in 1..Len(cpf.projections) :
               /\ cpf.projections[i].year = i - 1
               /\ cpf.projections[i].age = cpf.currentAge + i - 1
          /\ Len(cpf.projections) >= 1 =>
               /\ cpf.projections[1].OA = MathRound(cpf.currentBalances.OA)
               /\ cpf.projections[1].SA = MathRound(cpf.currentBalances.SA)
               /\ cpf.projections[1].MA = MathRound(cpf.currentBalances.MA)
               /\ cpf.projections[1].RA = 0
          /\ pc = "returned" => Len(cpf.projections) = cpf.yearsToProject + 1)
  /\ [][(pc = "projectCPF" /\ ProjectCPFLoops(cpf)) =>
          LET r == Last(cpf'.projections)
          IN  /\ Len(cpf'.projections) = Len(cpf.projections) + 1
              /\ r.OA = MathRound(cpf.OA)
              /\ r.MA = MathRound(cpf.MA)
              /\ {r.SA, r.RA} = {MathRound(cpf.SA), MathRound(cpf.RA)}
              /\ r.total = MathRound(cpf.OA + cpf.SA + cpf.MA + cpf.RA)
       ]_vars

\* a returned run that starts at age 55 with balances, over three years of
\* contributions: four records, the first with the starting balances, RA = 0
C20_Witness ==
  /\ pc = "returned"
  /\ entry = "projectCPF"
  /\ cpf.currentAge = 55
  /\ cpf.yearsToProject = 3
  /\ cpf.monthlySalary > 0
  /\ cpf.stopContributionsAtAge > 57
  /\ Len(cpf.projections) = 4
  /\ cpf.projections[1].SA = 80000
  /\ cpf.projections[1].RA = 0
  /\ cpf.projections[4].age = 58
  /\ cpf.projections[4].OA > cpf.projections[1].OA

---------------------------------------------------------------------------
(* Claims about the contributions of projectCPF (under SpecCPF)            *)

\* the total contribution rate of an age as the claim states it
ClaimedRate(age) ==
  IF age <= 55 THEN 370000
  ELSE IF age <= 60 THEN 295000
  ELSE IF age <= 65 THEN 205000
  ELSE 155000

\* round(12 * min(monthlySalary, 6800) * rate(age)) below the stop age, else 0
ClaimedContributions(monthlySalary, age, stopContributionsAtAge) ==
  IF age < stopContributionsAtAge
  THEN MathRound(MulDiv(12 * Min(monthlySalary, Dollars(6800)),
                        ClaimedRate(age), RateUnit))
  ELSE 0

\* C21: in every projectCPF record, contributions equals
\* round(12 * min(monthlySalary, 6800) * rate(age)) when
\* age < stopContributionsAtAge and 0 when age >= stopContributionsAtAge,
\* where rate is 0.37 for age <= 55, 0.295 for 56..60, 0.205 for 61..65 and
\* 0.155 above 65; a monthlySalary above 6800 gives the same iteration as a
\* monthlySalary of 6800.
C21_Contributions ==
  /\ [](entry = "projectCPF" =>
          \A i \in 1..Len(cpf.projections) :
            LET r == cpf.projections[i]
            IN  r.contributions =
                  ClaimedContributions(cpf.monthlySalary, r.age,
                                       cpf.stopContributionsAtAge))
  /\ [][(pc = "projectCPF" /\ ProjectCPFLoops(cpf)
           /\ cpf.monthlySalary > Dollars(6800)) =>
          cpf' = [ProjectCPFIteration([cpf EXCEPT !.monthlySalary = Dollars(6800)])
                    EXCEPT !.monthlySalary = cpf.monthlySalary]
       ]_vars

\* a returned run from 64 to 67 with a salary above the ceiling that stops
\* contributing at 70: 6800 * 12 at 20.5% (64, 65) and at 15.5% (66, 67)
C21_Witness ==
  /\ pc = "returned"
  /\ entry = "projectCPF"
  /\ cpf.monthlySalary = Dollars(8000)
  /\ cpf.currentAge = 64
  /\ cpf.stopContributionsAtAge = 70
  /\ Len(cpf.projections) = 4
  /\ cpf.projections[1].contributions = 16728
  /\ cpf.projections[2].contributions = 16728
  /\ cpf.projections[3].contributions = 12648
  /\ cpf.projections[4].contributions = 12648

---------------------------------------------------------------------------
(* Claims about the values calculateFIRE returns (under SpecSim)           *)

\* 0.95 at or above the fireNumber, else 0.8 * portfolio / fireNumber, the
\* result capped at 0.99
ClaimedSuccessProbability(portfolioAtRetirement, fireNumber) ==
  Min(IF portfolioAtRetirement >= fireNumber THEN Percent(95)
      ELSE MulDiv(Mul(portfolioAtRetirement, Percent(80)), RateUnit, fireNumber),
      Percent(99))

\* portfolios at retirement to compare the one of a call with
PortfolioProbes(fireNumber) ==
  {0, Dollars(1), Dollars(1000), Dollars(30000), Dollars(500000),
   Dollars(700000), fireNumber - 1, fireNumber, fireNumber + 1}

\* C22: calculateFIRE returns fireNumber = 12 * monthlyExpenses /
\* withdrawalRate and successProbability = 0.95 when portfolioAtRetirement >=
\* fireNumber, otherwise 0.8 * portfolioAtRetirement / fireNumber, the result
\* capped at 0.99 (to a millionth); with monthlyExpenses > 0 the value lies in
\* [0, 0.95] and a higher portfolioAtRetirement never gives a lower value.
C22_SuccessProbability ==
  FIREReturned =>
    LET r == fire.result
        Value(p) == Min(SuccessProbability(p, r.fireNumber), Percent(99))
    IN  /\ r.fireNumber =
             MulDiv(12 * fire.monthlyExpenses, RateUnit, fire.inputs.withdrawalRate)
        /\ Abs(r.successProbability
                 - ClaimedSuccessProbability(r.portfolioAtRetirement, r.fireNumber)) <= 1
        /\ r.portfolioAtRetirement >= r.fireNumber =>
             r.successProbability = Percent(95)
        /\ fire.monthlyExpenses > 0 =>
             /\ r.successProbability >= 0
             /\ r.successProbability <= Percent(95)
             /\ Value(r.portfolioAtRetirement) = r.successProbability
             /\ \A p \in PortfolioProbes(r.fireNumber), q \in PortfolioProbes(r.fireNumber) :
                  (0 <= p /\ p <= q) =>
                    /\ Value(p) <= Value(q)
                    /\ p <= r.portfolioAtRetirement => Value(p) <= r.successProbability
                    /\ r.portfolioAtRetirement <= p => r.successProbability <= Value(p)

\* a result below its fireNumber: 24000 a year at 4% needs 600000, and a
\* portfolio of 500000 has 0.8 * 5/6 of it
C22_Witness ==
  /\ FIREReturned
  /\ fire.monthlyExpenses = Dollars(2000)
  /\ fire.inputs.withdrawalRate = Percent(4)
  /\ fire.result.fireNumber = Dollars(600000)
  /\ fire.result.portfolioAtRetirement = Dollars(500000)
  /\ fire.result.successProbability > Percent(66)
  /\ fire.result.successProbability < Percent(67)

---------------------------------------------------------------------------
(* Claims about the persisted state (under SpecHook)                       *)

HookMounted == entry = "usePersistedState"

\* the parameter s is present but corrupt: not base64, not JSON, or a value
\* that lacks a required field
Corrupt(s) ==
  /\ s.kind = "string"
  /\ \/ ~s.base64
     \/ ~s.json
     \/ s.value.kind # "object"
     \/ \E key \in DOMAIN defaultState : key \notin DOMAIN s.value.value

\* localStorage held the JSON text of an object when the hook mounted
StoredObject ==
  /\ hook.stored.kind = "string"
  /\ hook.stored.json
  /\ hook.stored.value.kind = "object"

---------------------------------------------------------------------------
(* Claims that compare the Monte Carlo trial with the simulator (SpecMC)   *)

\* calculateAccumulation run to its end from a frame
RECURSIVE AccumulationRun(_)
AccumulationRun(f) ==
  IF AccumulationLoops(f) THEN AccumulationRun(AccumulationIteration(f)) ELSE f

\* calculateDrawdown run to its end from a frame
RECURSIVE DrawdownRun(_)
DrawdownRun(f) ==
  IF DrawdownLoops(f) THEN DrawdownRun(DrawdownIteration(f)) ELSE f

\* the records calculateAccumulation returns for the inputs of the trial
DeterministicAccumulation ==
  AccumulationRun(AccumulationEntry(mc.inputs, mc.currentAge)).results

\* the drawdown records of calculateFIRE for the inputs of the trial
DeterministicDrawdown ==
  LET portfolioAtRetirement == Last(DeterministicAccumulation).portfolioValue
      annualWithdrawal == Mul(portfolioAtRetirement, mc.inputs.withdrawalRate)
  IN  DrawdownRun(
        DrawdownEntry(portfolioAtRetirement, annualWithdrawal,
                      mc.inputs.expectedReturn - Percent(1),
                      mc.inputs.inflationRate, mc.retirementYears,
                      mc.currentAge + mc.inputs.yearsToRetirement)).results

\* every draw of the current trial was 0.5: the noise is zero
NoNoise ==
  /\ pc = "runMonteCarloSimulation"
  /\ mc.phase \in {"accumulation", "retirement"}
  /\ \A i \in 1..Len(mc.draws) : mc.draws[i] = RateUnit \div 2

\* the value of the trial after k accumulation years is the portfolioValue
\* of the record of calculateAccumulation for year k
C24_AccumulationPart ==
  NoNoise =>
    \A k \in 1..Len(mc.yearlyValues) :
      k <= mc.inputs.yearsToRetirement =>
        mc.yearlyValues[k] = DeterministicAccumulation[k + 1].portfolioValue

\* the value of the trial after j drawdown years is the portfolioValue of
\* the drawdown record of calculateFIRE for year j
C24_DrawdownPart ==
  NoNoise =>
    \A k \in 1..Len(mc.yearlyValues) :
      k > mc.inputs.yearsToRetirement =>
        mc.yearlyValues[k] =
          DeterministicDrawdown[k - mc.inputs.yearsToRetirement + 1].portfolioValue

\* C24: with every uniform draw equal to 0.5, a Monte Carlo trial follows the
\* deterministic simulator: its value after k accumulation years is the
\* portfolioValue of calculateAccumulation's record for year k (at
\* k = yearsToRetirement, portfolioAtRetirement), and its value after j
\* drawdown years is the portfolioValue of calculateFIRE's drawdown record
\* for year j.
C24_SameTwoPhaseModel ==
  /\ C24_AccumulationPart
  /\ C24_DrawdownPart
  /\ (NoNoise /\ mc.phase = "retirement" /\ mc.year = 0) =>
       mc.portfolio = Last(DeterministicAccumulation).portfolioValue

\* a drawdown year of the current trial is about to run
TrialDrawsDown ==
  /\ pc = "runMonteCarloSimulation"
  /\ mc.phase = "retirement"
  /\ mc.year < mc.retirementYears

\* the drawdown years of the current trial are over
TrialOver ==
  /\ pc = "runMonteCarloSimulation"
  /\ mc.phase = "retirement"
  /\ ~(mc.year < mc.retirementYears)

\* C25: in a Monte Carlo trial the value recorded for a drawdown year is
\* max(0, p), where the running portfolio p goes on as p * (1 + r) -
\* withdrawal from its unclamped, possibly negative value (no reset, no
\* freeze); with withdrawal >= 0 and every return r > -1, once a trial records
\* 0 it records 0 in every later year; the trial counts as a success exactly
\* when its last recorded value is > 0.
C25_ClampNotFreeze ==
  /\ [][TrialDrawsDown =>
          LET r == RandomReturn(mc.inputs.expectedReturn - Percent(1),
                                Last(mc'.draws))
          IN  /\ r > -RateUnit
              /\ mc.withdrawal >= 0
              /\ mc'.portfolio = Mul(mc.portfolio, RateUnit + r) - mc.withdrawal
              /\ Len(mc'.yearlyValues) = Len(mc.yearlyValues) + 1
              /\ Last(mc'.yearlyValues) = Max(0, mc'.portfolio)
              /\ (mc.year > 0 /\ Last(mc.yearlyValues) = 0) =>
                   Last(mc'.yearlyValues) = 0
       ]_vars
  /\ [][TrialOver =>
          mc'.successCount =
            mc.successCount + (IF Last(mc.yearlyValues) > 0 THEN 1 ELSE 0)
       ]_vars
  /\ [](pc = "runMonteCarloSimulation" =>
          \A i \in 1..Len(mc.allResults) :
            \A y \in (mc.inputs.yearsToRetirement + 1)..Len(mc.allResults[i]) :
              mc.allResults[i][y] = 0 =>
                \A z \in y..Len(mc.allResults[i]) : mc.allResults[i][z] = 0)

\* the second trial of a run has recorded 0 in both of its drawdown years
\* while its running portfolio went on falling below 0; the first trial,
\* which ended at 0, was not counted as a success
C25_Witness ==
  /\ TrialOver
  /\ mc.retirementYears = 2
  /\ mc.yearlyValues = <<0, 0>>
  /\ mc.portfolio < -mc.withdrawal
  /\ mc.sim = 1
  /\ Last(mc.allResults[1]) = 0
  /\ mc.successCount = 0

---------------------------------------------------------------------------
(* Claims about the records of the historical backtest (under SpecHB)      *)

\* the least of the values of a non-empty sequence
RECURSIVE MinOf(_)
MinOf(s) == IF Len(s) = 1 THEN s[1] ELSE Min(s[1], MinOf(Tail(s)))

\* C26: for every runHistoricalBacktest sequence, lowestValue is the minimum
\* portfolio value reached over the whole sequence (the initial savings,
\* every accumulation year and every drawdown year, a depleted portfolio
\* counting as 0), so lowestValue <= currentSavings and lowestValue <=
\* finalValue, and lowestYear lies within [startYear, endYear].
C26_LowestIsMinimum ==
  /\ [](HistoricalCalled =>
          \A i \in 1..Len(hb.sequences) :
            LET q == hb.sequences[i]
            IN  /\ q.lowestValue <= hb.inputs.currentSavings
                /\ q.lowestValue <= q.finalValue
                /\ q.startYear <= q.lowestYear
                /\ q.lowestYear <= q.endYear)
  /\ [][SequenceDone =>
          Last(hb'.sequences).lowestValue =
            MinOf(<<hb.inputs.currentSavings>>
                    \o [k \in 1..Len(hb.portfolios) |-> Max(0, hb.portfolios[k])])
       ]_vars

---------------------------------------------------------------------------
(* Claims about the flows between the records of the simulator (SpecSim)   *)

\* a withdrawal grown by the inflation rate k times, year by year
RECURSIVE Inflated(_, _, _)
Inflated(withdrawal, inflationRate, k) ==
  IF k = 0 THEN withdrawal
  ELSE Mul(Inflated(withdrawal, inflationRate, k - 1), RateUnit + inflationRate)

\* calculateDrawdown has run its loop to the end
DrawdownDone ==
  \/ pc = "calculateDrawdown" /\ ~DrawdownLoops(dd)
  \/ pc = "returned" /\ entry \in {"calculateDrawdown", "calculateFIRE"}

\* C27: consecutive records obey the recorded flows: in calculateAccumulation
\* portfolioValue[k+1] = portfolioValue[k] + contribution[k] + returns[k]; in
\* calculateDrawdown from a non-negative start portfolioValue[k+1] =
\* max(0, portfolioValue[k] + returns[k] - withdrawal[k]), with withdrawal[0]
\* = 0 and withdrawal[k] = annualWithdrawal * (1 + inflationRate)^k in every
\* later year before depletion; every recorded portfolioValue is >= 0 and
\* calculateDrawdown returns exactly years + 1 records.
C27_RecordedFlows ==
  /\ \A k \in 1..(Len(acc.results) - 1) :
       acc.results[k + 1].portfolioValue =
         acc.results[k].portfolioValue + acc.results[k].contribution
           + acc.results[k].returns
  /\ \A k \in 1..Len(acc.results) : acc.results[k].portfolioValue >= 0
  /\ \A k \in 1..Len(dd.results) : dd.results[k].portfolioValue >= 0
  /\ dd.startingPortfolio >= 0 =>
       /\ \A k \in 1..(Len(dd.results) - 1) :
            dd.results[k + 1].portfolioValue =
              Max(0, dd.results[k].portfolioValue + dd.results[k].returns
                       - dd.results[k].withdrawal)
       /\ Len(dd.results) >= 1 => dd.results[1].withdrawal = 0
       /\ \A k \in 2..Len(dd.results) :
            dd.results[k].portfolioValue > 0 =>
              dd.results[k].withdrawal =
                Inflated(dd.annualWithdrawal, dd.inflationRate, k - 1)
  /\ DrawdownDone => Len(dd.results) = dd.years + 1

\* a returned drawdown of three years from 1000 with 600 a year at 3%
\* inflation: withdrawals of 618 and 636.54, then depletion and a zero record
C27_Witness ==
  /\ DrawdownReturned
  /\ dd.startingPortfolio = Dollars(1000)
  /\ dd.annualWithdrawal = Dollars(600)
  /\ dd.inflationRate = Percent(3)
  /\ dd.years = 3
  /\ Len(dd.results) = 4
  /\ dd.results[2].withdrawal = 61800
  /\ dd.results[3].withdrawal = 63654
  /\ dd.results[3].portfolioValue > 0
  /\ dd.results[4].portfolioValue = 0

\* (1 + inflationRate)^n, compounded year by year
RECURSIVE CompoundedInflation(_, _)
CompoundedInflation(inflationRate, n) ==
  IF n = 0 THEN RateUnit
  ELSE Mul(CompoundedInflation(inflationRate, n - 1), RateUnit + inflationRate)

\* the record's inflationAdjustedValue is its portfolioValue divided by
\* (1 + inflationRate)^(year + 1), and below it when there is inflation and
\* a portfolio
DeflatedThroughItsYear(r, inflationRate) ==
  /\ r.inflationAdjustedValue =
       Div(r.portfolioValue, CompoundedInflation(inflationRate, r.year + 1))
  /\ (inflationRate > 0 /\ r.portfolioValue > 0) =>
       r.inflationAdjustedValue < r.portfolioValue
  /\ (inflationRate = 0 \/ r.portfolioValue = 0) =>
       r.inflationAdjustedValue = r.portfolioValue

\* C28: in every record of calculateAccumulation and every non-depleted
\* record of calculateDrawdown, inflationAdjustedValue is the recorded
\* portfolioValue divided by the inflation compounded from year 0 through
\* that year inclusive, (1 + inflationRate)^(year + 1); so with
\* inflationRate > 0 the inflationAdjustedValue of year 0 is already below a
\* positive portfolioValue of year 0 (the records padded in after depletion
\* have both at 0).
C28_InflationThroughYear ==
  /\ \A k \in 1..Len(acc.results) :
       DeflatedThroughItsYear(acc.results[k], acc.inputs.inflationRate)
  /\ \A k \in 1..Len(dd.results) :
       DeflatedThroughItsYear(dd.results[k], dd.inflationRate)

\* a returned calculateFIRE from 500000 at 3% inflation over two years:
\* year 0 shows 500000 / 1.03, and the drawdown's record of year 1 is deflated
C28_Witness ==
  /\ FIREReturned
  /\ fire.inputs.inflationRate = Percent(3)
  /\ Len(acc.results) = 3
  /\ acc.results[1].portfolioValue = Dollars(500000)
  /\ acc.results[1].inflationAdjustedValue = 48543689
  /\ acc.results[3].inflationAdjustedValue < acc.results[3].portfolioValue
  /\ Len(dd.results) >= 2
  /\ dd.results[2].portfolioValue > 0
  /\ dd.results[2].inflationAdjustedValue < dd.results[2].portfolioValue

\* the number of sequences of a list that survived
SurvivedCount(sequences) ==
  Cardinality({i \in 1..Len(sequences) : sequences[i].survived})

\* C29: for every runHistoricalBacktest sequence with non-negative savings
\* and contributions and retirementYears >= 1: survived is true if and only
\* if yearsDepleted is null, finalValue > 0 if and only if survived, and a
\* yearsDepleted that is not null is the smallest drawdown offset in
\* 0..retirementYears-1 at which the portfolio was <= 0; successRate is the
\* number of survived sequences divided by the number of sequences.
C29_SurvivedIffNeverDepleted ==
  /\ [][SequenceDone =>
          LET q == Last(hb'.sequences)
          IN  /\ Len(hb.portfolios) = TotalYearsNeeded(hb)
              /\ q.survived <=> q.yearsDepleted = null
              /\ q.finalValue > 0 <=> q.survived
              /\ q.yearsDepleted = null =>
                   \A y \in 0..(hb.retirementYears - 1) : DrawdownPortfolio(y) > 0
              /\ q.yearsDepleted # null =>
                   /\ q.yearsDepleted \in 0..(hb.retirementYears - 1)
                   /\ DrawdownPortfolio(q.yearsDepleted) <= 0
                   /\ \A y \in 0..(q.yearsDepleted - 1) : DrawdownPortfolio(y) > 0
       ]_vars
  /\ [](HistoricalReturned /\ Len(hb.result.sequences) > 0 =>
          /\ hb.result.successRate =
               Number(MulDiv(SurvivedCount(hb.result.sequences), RateUnit,
                             Len(hb.result.sequences)))
          /\ \A i \in 1..Len(hb.result.sequences) :
               LET q == hb.result.sequences[i]
               IN  /\ q.survived <=> q.yearsDepleted = null
                   /\ q.finalValue > 0 <=> q.survived)

\* a result over three drawdown years in which the sequence from 1928
\* depleted in its last year and later sequences survived
C29_Witness ==
  /\ HistoricalReturned
  /\ hb.retirementYears = 3
  /\ hb.inputs.yearsToRetirement = 0
  /\ hb.result.sequences[1].yearsDepleted = 2
  /\ ~hb.result.sequences[1].survived
  /\ hb.result.sequences[1].finalValue = 0
  /\ \E i \in 1..Len(hb.result.sequences) :
       /\ hb.result.sequences[i].survived
       /\ hb.result.sequences[i].yearsDepleted = null
  /\ hb.result.successRate.value > 0
  /\ hb.result.successRate.value < RateUnit

---------------------------------------------------------------------------
(* Claims about the yearsOfRunway of calculateFIRE (under SpecSim)         *)

\* the indices (from 0) of the drawdown records whose portfolioValue is 0
ZeroRecords ==
  {k \in 0..(Len(dd.results) - 1) : dd.results[k + 1].portfolioValue = 0}

\* yearsOfRunway is the index of the first drawdown record at 0, or
\* retirementYears when there is none, and it is within 0..retirementYears
C30_FirstZeroRecord ==
  FIREReturned =>
    /\ ZeroRecords # {} =>
         /\ fire.result.yearsOfRunway \in ZeroRecords
         /\ \A k \in ZeroRecords : fire.result.yearsOfRunway <= k
    /\ ZeroRecords = {} => fire.result.yearsOfRunway = fire.retirementYears
    /\ 0 <= fire.result.yearsOfRunway
    /\ fire.result.yearsOfRunway <= fire.retirementYears

\* C30: calculateFIRE's yearsOfRunway is the index of the first drawdown
\* record whose portfolioValue is 0, or retirementYears when no record is 0,
\* so 0 <= yearsOfRunway <= retirementYears; yearsOfRunway = retirementYears
\* only if the portfolio is still positive after the withdrawal of the final
\* drawdown year: a portfolio exhausted within the horizon reports strictly
\* fewer than retirementYears (stated here for a positive portfolio at
\* retirement and a horizon of at least one year).
C30_RunwayShortOfHorizonWhenExhausted ==
  /\ C30_FirstZeroRecord
  /\ (FIREReturned /\ fire.retirementYears >= 1
        /\ fire.result.portfolioAtRetirement > 0) =>
       /\ fire.result.yearsOfRunway = fire.retirementYears => dd.portfolioValue > 0
       /\ dd.broke => fire.result.yearsOfRunway < fire.retirementYears

====
